---- MODULE Spec2Model ----
(***************************************************************************)
(* Model of the concurrency core of the thread recitation programs:        *)
(*   src/w6/thread_recitation.c  (counter scenarios, semc_* semaphore)     *)
(*   src/w3/thread_demo.c        (the same mutex-guarded counter worker)   *)
(*                                                                         *)
(* Threads are preemptible: every shared-memory access and every pthread   *)
(* call of a worker is one step.  `counter++` built with -O0 is a load     *)
(* followed by a store, so it is two steps.  Steps that touch only a       *)
(* thread's locals (the for-loop test and i++) are folded into the step    *)
(* that precedes them.                                                     *)
(***************************************************************************)
EXTENDS Integers, FiniteSets, Sequences, TLC

(* ------------------------------ bounds --------------------------------- *)
\* THREADS and ITERATIONS are compile-time macros (8 and 100000 in
\* thread_recitation.c); the model draws them from 1..MaxThreads, 1..MaxIter.
MaxThreads == 3
MaxIter == 2
\* ITERATIONS bound of the three-permit section, whose workers overlap inside
\* the guarded region (its THREADS go up to one more than the permits).
MaxIterThree == 1
\* The stand-alone semaphore clients: how many there are, how many calls each
\* makes, and the largest initial permit count they start from.
MaxClients == 3
MaxCalls == 1
MaxPermits == 1
\* How many clients there are under fair scheduling (liveness checking).
MaxFairClients == 2
\* Unsynchronised counter scenarios: workers and iterations per worker
MaxRaceThreads == 2
MaxRaceIter == 2
\* Formatter inputs: longest input, longest input of the concurrent
\* scenarios, largest small destination capacity
MaxLen == 65
MaxShortLen == 2
MaxCap == 3

VARIABLES
    part,        \* the section of main() being run
    THREADS,     \* value of the THREADS macro
    ITERATIONS,  \* value of the ITERATIONS macro
    main_pc,     \* position of main() inside the section
    main_i,      \* main's loop index in the create / join loops
    got,         \* the counter value main printed (-1: nothing printed yet)
    counter,     \* static long counter
    g_lock,      \* pthread_mutex_t g_lock: 0 = free, else the owning thread
    pc,          \* per-thread position
    i,           \* per-thread loop index of the worker's for loop
    tmp,         \* per-thread local holding the loaded counter value
    sem_count,   \* semc_t.count, per semaphore
    sem_m,       \* semc_t.m: 0 = free, else the owning thread
    sem_cv,      \* semc_t.cv: the threads blocked in pthread_cond_wait on it
    sem_live,    \* TRUE between semc_init and semc_destroy
    sem_initial, \* the `initial` argument semc_init was called with
    waits,       \* per thread: number of count-- it has executed
    posts,       \* per thread: number of count++ it has executed
    pair_vals,   \* pair_t pair_vals: the two fields a and b
    ta,          \* per-thread local ta (also the register holding a read of .a)
    tb,          \* per-thread local tb (also the register holding a read of .b)
    ret,         \* per-thread return value of the thread function (0 = NULL)
    broke,       \* main's local `broke`
    report,      \* the verdict main printed for the pair ("none": not yet)
    buf,         \* static char buf[64] of the non-reentrant formatter: the
                 \* bytes written so far; the others hold their initial zero
    oob,         \* TRUE once a formatter wrote at an index outside its buffer
    last_writer, \* per index of buf: the caller that wrote it last (0: nobody)
    arg_in,      \* per caller: the input string s
    arg_out,     \* per caller: the caller-owned destination (A_buf, B_buf)
    arg_cap,     \* per caller: the destination capacity outcap
    fmt_n,       \* per caller: the formatter's local n
    p_ret,       \* per caller: the pointer the formatter returned
    outp,        \* per caller: the pointer main holds (p1, p2 / outA, outB)
    shown        \* per caller: the string main printed for it

cfgVars == <<part, THREADS, ITERATIONS>>
mainVars == <<part, THREADS, ITERATIONS, main_pc, main_i, got>>
workerVars == <<pc, i, tmp>>
semVars == <<sem_count, sem_m, sem_cv, sem_live, sem_initial>>
callVars == <<waits, posts>>
pairVars == <<pair_vals, ta, tb, ret, broke, report>>
fmtVars == <<buf, oob, last_writer, arg_in, arg_out, arg_cap, fmt_n, p_ret,
             outp, shown>>
vars == <<part, THREADS, ITERATIONS, main_pc, main_i, got, counter, g_lock,
          pc, i, tmp, sem_count, sem_m, sem_cv, sem_live, sem_initial,
          waits, posts,
          pair_vals, ta, tb, ret, broke, report,
          buf, oob, last_writer, arg_in, arg_out, arg_cap, fmt_n, p_ret,
          outp, shown>>

Sems == {"sem_bin", "sem_three"}

\* Faulty variant: semaphores created with one permit too many.
InitialOfOneMore(s) == IF s = "sem_three" THEN 4 ELSE 2

\* semc_init(&sem_bin, 1) and semc_init(&sem_three, 3)
BinaryPermits == 1
ThreePermits == 3
InitialOf(s) == IF s = "sem_three" THEN ThreePermits ELSE BinaryPermits

\* Thread ids: enough for MaxThreads workers, and for the three-permit
\* section to have one worker more than it has permits.
MaxThreadsThree == ThreePermits + 1
Threads == 1..(IF MaxThreads > MaxThreadsThree THEN MaxThreads ELSE MaxThreadsThree)

\* The start routine main() passes to pthread_create in each section
\* ("Client": a task that calls semc_wait / semc_post in any order).
\* Where both programs are run from start to end, the sections of w3 that
\* have a twin in w6 go by their own names: "PartA2" (twin "Part1"),
\* "PartB" ("Part2"), "PartC1n" ("Part3", followed by the reentrant calls
\* "PartC1") and "PartC2" ("Part3b").
StartLabel(p) ==
    CASE p \in {"Part2", "PartB"} -> "lk_lock"
      [] p = "Part6a" -> "wait_lock"
      [] p \in {"Part1", "PartA2"} -> "nl_load"
      [] p = "PartA" -> "na_load"
      [] p = "BonusA" -> "pu_load_a"
      [] p = "BonusB" -> "pl_lock"
      [] p \in {"Part3", "PartC1n"} -> "nr_strlen"
      [] p \in {"Part3b", "PartC2"} -> "nr_strlen"
      [] p = "Part4" -> "re_strlen"
      [] p = "PartC1" -> "ru_strlen"
      [] p = "Part6b" -> "wait_lock"
      [] p = "Part6bOne" -> "wait_lock"
      [] p = "Client" -> "call"
      [] OTHER -> "done"

\* Faulty variant: every section passes sem_bin to semc_wait / semc_post
SemOfBinaryOnly(p) == "sem_bin"

\* The semaphore the workers of a section pass to semc_wait / semc_post.
SemOf(p) == IF p \in {"Part6b", "Part6bOne"} THEN "sem_three" ELSE "sem_bin"

\* for (int i = 0; i < ITERATIONS; i++): where a thread goes after finishing
\* the body of iteration i[t].
AfterIter(t) == IF i[t] + 1 < ITERATIONS THEN StartLabel(part) ELSE "done"

(* --------------------------- worker: mutex ----------------------------- *)
\* Faulty variant: a lock that never blocks (no mutual exclusion).
LockMutexNoWait(t) ==
    /\ pc[t] = "lk_lock"
    /\ g_lock' = t
    /\ pc' = [pc EXCEPT ![t] = "lk_load"]
    /\ UNCHANGED <<mainVars, fmtVars, pairVars, counter, i, tmp, semVars, callVars>>

\* pthread_mutex_lock(&g_lock)
LockMutex(t) ==
    /\ pc[t] = "lk_lock"
    /\ g_lock = 0
    /\ g_lock' = t
    /\ pc' = [pc EXCEPT ![t] = "lk_load"]
    /\ UNCHANGED <<mainVars, fmtVars, pairVars, counter, i, tmp, semVars, callVars>>

\* counter++ : load
LoadLocked(t) ==
    /\ pc[t] = "lk_load"
    /\ tmp' = [tmp EXCEPT ![t] = counter]
    /\ pc' = [pc EXCEPT ![t] = "lk_store"]
    /\ UNCHANGED <<mainVars, fmtVars, pairVars, counter, g_lock, i, semVars, callVars>>

\* counter++ : store
StoreLocked(t) ==
    /\ pc[t] = "lk_store"
    /\ counter' = tmp[t] + 1
    /\ tmp' = [tmp EXCEPT ![t] = 0]
    /\ pc' = [pc EXCEPT ![t] = "lk_unlock"]
    /\ UNCHANGED <<mainVars, fmtVars, pairVars, g_lock, i, semVars, callVars>>

\* pthread_mutex_unlock(&g_lock); i++; loop test
UnlockMutex(t) ==
    /\ pc[t] = "lk_unlock"
    /\ g_lock' = 0
    /\ pc' = [pc EXCEPT ![t] = AfterIter(t)]
    /\ i' = [i EXCEPT ![t] = i[t] + 1]
    /\ UNCHANGED <<mainVars, fmtVars, pairVars, counter, tmp, semVars, callVars>>

inc_with_lock(t) ==
    \/ LockMutex(t)
    \/ LoadLocked(t)
    \/ StoreLocked(t)
    \/ UnlockMutex(t)

\* ---- Strings and buffers ----
\* sizeof(buf) of the non-reentrant formatter
BufSize == 64
\* A buffer of cap bytes, every byte holding fill
Filled(cap, fill) == [k \in 0..(cap - 1) |-> fill]

\* The two callers of a formatter scenario: A (or the first call) and B
Callers == {1, 2}

\* Strings are sequences of character codes without the terminating 0.
\* "hello", "world", "abcdef", "XYZ123" are the inputs main uses; "HeLLo"
\* and the patterns are further inputs.
Hello == <<104, 101, 108, 108, 111>>
World == <<119, 111, 114, 108, 100>>
Abcdef == <<97, 98, 99, 100, 101, 102>>
Xyz123 == <<88, 89, 90, 49, 50, 51>>
MixedHello == <<72, 101, 76, 76, 111>>
Alphabet == <<97, 66, 122, 48, 109>>
Pattern(L) == [k \in 1..L |-> Alphabet[((k - 1) % Len(Alphabet)) + 1]]

\* strlen(s)
strlen(str) == Len(str)
\* toupper((unsigned char)c) in the "C" locale
toupper(c) == IF c \in 97..122 THEN c - 32 ELSE c

\* Faulty variant: the length is clamped only when it exceeds the capacity
ClampOffByOne(len, cap) == IF len > cap THEN cap - 1 ELSE len
\* if (n >= cap) n = cap - 1;
Clamp(len, cap) == IF len >= cap THEN cap - 1 ELSE len

\* buf[k] as a read sees it
BufAt(k) == IF k \in DOMAIN buf THEN buf[k] ELSE 0
\* the whole of buf
BufMem == [k \in 0..(BufSize - 1) |-> BufAt(k)]
\* mem with byte v stored at index k
Store(mem, k, v) == [j \in (DOMAIN mem) \cup {k} |-> IF j = k THEN v ELSE mem[j]]
\* The string printf("%s") reads from mem: the bytes before the first 0
CStr(mem) ==
    LET zs == {k \in DOMAIN mem : mem[k] = 0}
        z == IF zs = {} THEN Cardinality(DOMAIN mem)
             ELSE CHOOSE k \in zs : \A j \in zs : k <= j
    IN [j \in 1..z |-> mem[j - 1]]

\* ---- touch_pair_with_lock (w3) ----
\* Faulty variant: the lock is taken without waiting for it to be free
LockPairNoWait(t) ==
    /\ pc[t] = "pl_lock"
    /\ g_lock' = t
    /\ pc' = [pc EXCEPT ![t] = "pl_a_load"]
    /\ UNCHANGED <<mainVars, fmtVars, pairVars, counter, i, tmp, semVars, callVars>>

\* pthread_mutex_lock(&lock);
LockPair(t) ==
    /\ pc[t] = "pl_lock"
    /\ g_lock = 0
    /\ g_lock' = t
    /\ pc' = [pc EXCEPT ![t] = "pl_a_load"]
    /\ UNCHANGED <<mainVars, fmtVars, pairVars, counter, i, tmp, semVars, callVars>>

\* pair_vals.a++ : load
LoadALocked(t) ==
    /\ pc[t] = "pl_a_load"
    /\ ta' = [ta EXCEPT ![t] = pair_vals.a]
    /\ pc' = [pc EXCEPT ![t] = "pl_a_store"]
    /\ UNCHANGED <<mainVars, fmtVars, pair_vals, tb, ret, broke, report,
                   counter, g_lock, i, tmp, semVars, callVars>>

\* Faulty variant: the lock is given up between the two increments
StoreALockedUnlocks(t) ==
    /\ pc[t] = "pl_a_store"
    /\ pair_vals' = [pair_vals EXCEPT !.a = ta[t] + 1]
    /\ ta' = [ta EXCEPT ![t] = 0]
    /\ g_lock' = 0
    /\ pc' = [pc EXCEPT ![t] = "pl_b_load"]
    /\ UNCHANGED <<mainVars, fmtVars, tb, ret, broke, report,
                   counter, i, tmp, semVars, callVars>>

\* pair_vals.a++ : store; then the optional spin of line 95
StoreALocked(t) ==
    /\ pc[t] = "pl_a_store"
    /\ pair_vals' = [pair_vals EXCEPT !.a = ta[t] + 1]
    /\ ta' = [ta EXCEPT ![t] = 0]
    /\ pc' = [pc EXCEPT ![t] = "pl_b_load"]
    /\ UNCHANGED <<mainVars, fmtVars, tb, ret, broke, report,
                   counter, g_lock, i, tmp, semVars, callVars>>

\* pair_vals.b++ : load
LoadBLocked(t) ==
    /\ pc[t] = "pl_b_load"
    /\ tb' = [tb EXCEPT ![t] = pair_vals.b]
    /\ pc' = [pc EXCEPT ![t] = "pl_b_store"]
    /\ UNCHANGED <<mainVars, fmtVars, pair_vals, ta, ret, broke, report,
                   counter, g_lock, i, tmp, semVars, callVars>>

\* pair_vals.b++ : store
StoreBLocked(t) ==
    /\ pc[t] = "pl_b_store"
    /\ pair_vals' = [pair_vals EXCEPT !.b = tb[t] + 1]
    /\ tb' = [tb EXCEPT ![t] = 0]
    /\ pc' = [pc EXCEPT ![t] = "pl_unlock"]
    /\ UNCHANGED <<mainVars, fmtVars, ta, ret, broke, report,
                   counter, g_lock, i, tmp, semVars, callVars>>

\* pthread_mutex_unlock(&lock); i++; loop test; return NULL after the loop
UnlockPair(t) ==
    /\ pc[t] = "pl_unlock"
    /\ g_lock' = 0
    /\ pc' = [pc EXCEPT ![t] = AfterIter(t)]
    /\ i' = [i EXCEPT ![t] = i[t] + 1]
    /\ UNCHANGED <<mainVars, fmtVars, pairVars, counter, tmp, semVars, callVars>>

touch_pair_with_lock(t) ==
    \/ LockPair(t)
    \/ LoadALocked(t)
    \/ StoreALocked(t)
    \/ LoadBLocked(t)
    \/ StoreBLocked(t)
    \/ UnlockPair(t)

\* ---- touch_pair_without_lock (w3) ----
\* long ta = pair_vals.a;
LoadA(t) ==
    /\ pc[t] = "pu_load_a"
    /\ ta' = [ta EXCEPT ![t] = pair_vals.a]
    /\ pc' = [pc EXCEPT ![t] = "pu_load_b"]
    /\ UNCHANGED <<mainVars, fmtVars, pair_vals, tb, ret, broke, report, i, counter, g_lock, tmp, semVars, callVars>>

\* long tb = pair_vals.b;
LoadB(t) ==
    /\ pc[t] = "pu_load_b"
    /\ tb' = [tb EXCEPT ![t] = pair_vals.b]
    /\ pc' = [pc EXCEPT ![t] = "pu_window"]
    /\ UNCHANGED <<mainVars, fmtVars, pair_vals, ta, ret, broke, report, i, counter, g_lock, tmp, semVars, callVars>>

\* Faulty variant: only ta is incremented
WindowPairOnlyA(t) ==
    /\ pc[t] = "pu_window"
    /\ ta' = [ta EXCEPT ![t] = ta[t] + 1]
    /\ pc' = [pc EXCEPT ![t] = "pu_store_a"]
    /\ UNCHANGED <<mainVars, fmtVars, pair_vals, tb, ret, broke, report, i, counter, g_lock, tmp, semVars, callVars>>

\* sched_yield(); ta++; tb++; sched_yield();
WindowPair(t) ==
    /\ pc[t] = "pu_window"
    /\ ta' = [ta EXCEPT ![t] = ta[t] + 1]
    /\ tb' = [tb EXCEPT ![t] = tb[t] + 1]
    /\ pc' = [pc EXCEPT ![t] = "pu_store_a"]
    /\ UNCHANGED <<mainVars, fmtVars, pair_vals, ret, broke, report, i, counter, g_lock, tmp, semVars, callVars>>

\* pair_vals.a = ta;
StoreA(t) ==
    /\ pc[t] = "pu_store_a"
    /\ pair_vals' = [pair_vals EXCEPT !.a = ta[t]]
    /\ pc' = [pc EXCEPT ![t] = "pu_store_b"]
    /\ UNCHANGED <<mainVars, fmtVars, ta, tb, ret, broke, report, i, counter, g_lock, tmp, semVars, callVars>>

\* pair_vals.b = tb;
StoreB(t) ==
    /\ pc[t] = "pu_store_b"
    /\ pair_vals' = [pair_vals EXCEPT !.b = tb[t]]
    /\ pc' = [pc EXCEPT ![t] = "pu_check"]
    /\ UNCHANGED <<mainVars, fmtVars, ta, tb, ret, broke, report, i, counter, g_lock, tmp, semVars, callVars>>

\* if (pair_vals.a != pair_vals.b): the first of the two reads. The operands
\* of != are unsequenced and the reads race with the other workers' writes,
\* so either field may be read first.  The worker has just stored ta and tb
\* with plain stores: a racing read of a field returns what memory holds,
\* or the value the worker itself stored, taken from the core's store buffer
\* while that store is not yet visible to the other workers.
CheckFirstRead(t) ==
    /\ pc[t] = "pu_check"
    /\ \/ /\ \E v \in {pair_vals.a, ta[t]} : ta' = [ta EXCEPT ![t] = v]
          /\ pc' = [pc EXCEPT ![t] = "pu_cmp_b"]
          /\ UNCHANGED tb
       \/ /\ \E v \in {pair_vals.b, tb[t]} : tb' = [tb EXCEPT ![t] = v]
          /\ pc' = [pc EXCEPT ![t] = "pu_cmp_a"]
          /\ UNCHANGED ta
    /\ UNCHANGED <<mainVars, fmtVars, pair_vals, ret, broke, report, i, counter, g_lock, tmp, semVars, callVars>>

\* What follows the comparison: return (void*)1 when the values differ,
\* otherwise i++ and the loop test (return NULL after the last iteration).
CheckOutcome(t, va, vb) ==
    IF va # vb
    THEN /\ ret' = [ret EXCEPT ![t] = 1]
         /\ pc' = [pc EXCEPT ![t] = "done"]
         /\ UNCHANGED i
    ELSE /\ pc' = [pc EXCEPT ![t] = AfterIter(t)]
         /\ i' = [i EXCEPT ![t] = i[t] + 1]
         /\ UNCHANGED ret

\* the second read and the comparison
CheckSecondRead(t) ==
    /\ \/ /\ pc[t] = "pu_cmp_b"
          /\ tb' = [tb EXCEPT ![t] = pair_vals.b]
          /\ CheckOutcome(t, ta[t], pair_vals.b)
          /\ UNCHANGED ta
       \/ /\ pc[t] = "pu_cmp_a"
          /\ ta' = [ta EXCEPT ![t] = pair_vals.a]
          /\ CheckOutcome(t, pair_vals.a, tb[t])
          /\ UNCHANGED tb
    /\ UNCHANGED <<mainVars, fmtVars, pair_vals, broke, report, counter, g_lock, tmp, semVars, callVars>>

\* both reads of the comparison served from the store buffer: the worker
\* compares the two values it has just stored
CheckForwarded(t) ==
    /\ pc[t] = "pu_check"
    /\ CheckOutcome(t, ta[t], tb[t])
    /\ UNCHANGED <<mainVars, fmtVars, pair_vals, ta, tb, broke, report, counter, g_lock, tmp, semVars, callVars>>

touch_pair_without_lock(t) ==
    \/ LoadA(t)
    \/ LoadB(t)
    \/ WindowPair(t)
    \/ StoreA(t)
    \/ StoreB(t)
    \/ CheckFirstRead(t)
    \/ CheckSecondRead(t)
    \/ CheckForwarded(t)

\* ---- upper_not_reentrant (w6) / not_reentrant_upper (w3) ----
\* Faulty variant: the length is not clamped to the buffer
NrEnterNoClamp(c) ==
    /\ pc[c] = "nr_strlen"
    /\ fmt_n' = [fmt_n EXCEPT ![c] = strlen(arg_in[c])]
    /\ i' = [i EXCEPT ![c] = 0]
    /\ pc' = [pc EXCEPT ![c] = "nr_loop"]
    /\ UNCHANGED <<mainVars, pairVars, buf, oob, last_writer, arg_in, arg_out,
                   arg_cap, p_ret, outp, shown, counter, g_lock, tmp, semVars, callVars>>

\* size_t n = strlen(s); if (n >= sizeof(buf)) n = sizeof(buf) - 1; i = 0;
\* (in thread_fn_bad preceded by sched_yield())
NrEnter(c) ==
    /\ pc[c] = "nr_strlen"
    /\ fmt_n' = [fmt_n EXCEPT ![c] = Clamp(strlen(arg_in[c]), BufSize)]
    /\ i' = [i EXCEPT ![c] = 0]
    /\ pc' = [pc EXCEPT ![c] = "nr_loop"]
    /\ UNCHANGED <<mainVars, pairVars, buf, oob, last_writer, arg_in, arg_out,
                   arg_cap, p_ret, outp, shown, counter, g_lock, tmp, semVars, callVars>>

\* i < n: buf[i] = (char)toupper((unsigned char)s[i]); busy_spin; i++
NrWriteByte(c) ==
    /\ pc[c] = "nr_loop"
    /\ i[c] < fmt_n[c]
    /\ IF i[c] < BufSize
       THEN /\ buf' = Store(buf, i[c], toupper(arg_in[c][i[c] + 1]))
            /\ last_writer' = Store(last_writer, i[c], c)
            /\ UNCHANGED oob
       ELSE /\ oob' = TRUE
            /\ UNCHANGED <<buf, last_writer>>
    /\ i' = [i EXCEPT ![c] = i[c] + 1]
    /\ UNCHANGED <<mainVars, pairVars, arg_in, arg_out, arg_cap, fmt_n, p_ret,
                   outp, shown, pc, counter, g_lock, tmp, semVars, callVars>>

\* The sections that run the non-reentrant formatter in two threads
\* (w6 Part 3b, w3 Part C2)
ThreadedBad == {"Part3b", "PartC2"}

\* Faulty variant: returns without writing the terminator
NrTerminateMissing(c) ==
    /\ pc[c] = "nr_loop"
    /\ i[c] >= fmt_n[c]
    /\ p_ret' = [p_ret EXCEPT ![c] = "buf"]
    /\ pc' = [pc EXCEPT ![c] = IF part \in ThreadedBad THEN "fb_store" ELSE "returned"]
    /\ UNCHANGED <<mainVars, pairVars, buf, oob, last_writer, arg_in, arg_out,
                   arg_cap, fmt_n, outp, shown, i, counter, g_lock, tmp, semVars, callVars>>

\* i >= n: buf[n] = '\0'; return buf;
NrTerminate(c) ==
    /\ pc[c] = "nr_loop"
    /\ i[c] >= fmt_n[c]
    /\ IF fmt_n[c] < BufSize
       THEN /\ buf' = Store(buf, fmt_n[c], 0)
            /\ last_writer' = Store(last_writer, fmt_n[c], c)
            /\ UNCHANGED oob
       ELSE /\ oob' = TRUE
            /\ UNCHANGED <<buf, last_writer>>
    /\ p_ret' = [p_ret EXCEPT ![c] = "buf"]
    /\ pc' = [pc EXCEPT ![c] = IF part \in ThreadedBad THEN "fb_store" ELSE "returned"]
    /\ UNCHANGED <<mainVars, pairVars, arg_in, arg_out, arg_cap, fmt_n,
                   outp, shown, i, counter, g_lock, tmp, semVars, callVars>>

upper_not_reentrant(c) ==
    \/ NrEnter(c)
    \/ NrWriteByte(c)
    \/ NrTerminate(c)

\* Faulty variant: the caller is handed a private copy, not buf
FbStoreCopy(c) ==
    /\ pc[c] = "fb_store"
    /\ outp' = [outp EXCEPT ![c] = "copy"]
    /\ pc' = [pc EXCEPT ![c] = "done"]
    /\ UNCHANGED <<mainVars, pairVars, buf, oob, last_writer, arg_in, arg_out,
                   arg_cap, fmt_n, p_ret, shown, i, counter, g_lock, tmp, semVars, callVars>>

\* thread_fn_bad (w6) / call_not_reentrant (w3): sched_yield(); *(a->out) = p;
FbStore(c) ==
    /\ pc[c] = "fb_store"
    /\ outp' = [outp EXCEPT ![c] = p_ret[c]]
    /\ pc' = [pc EXCEPT ![c] = "done"]
    /\ UNCHANGED <<mainVars, pairVars, buf, oob, last_writer, arg_in, arg_out,
                   arg_cap, fmt_n, p_ret, shown, i, counter, g_lock, tmp, semVars, callVars>>

thread_fn_bad(c) ==
    \/ upper_not_reentrant(c)
    \/ FbStore(c)

\* ---- upper_reentrant (w6) ----
\* if (!outcap) return; size_t n = strlen(s); if (n >= outcap) n = outcap - 1;
ReEnter(c) ==
    /\ pc[c] = "re_strlen"
    /\ IF arg_cap[c] = 0
       THEN /\ pc' = [pc EXCEPT ![c] = "done"]
            /\ UNCHANGED <<fmt_n, i>>
       ELSE /\ fmt_n' = [fmt_n EXCEPT ![c] = Clamp(strlen(arg_in[c]), arg_cap[c])]
            /\ i' = [i EXCEPT ![c] = 0]
            /\ pc' = [pc EXCEPT ![c] = "re_loop"]
    /\ UNCHANGED <<mainVars, pairVars, buf, oob, last_writer, arg_in, arg_out,
                   arg_cap, p_ret, outp, shown, counter, g_lock, tmp, semVars, callVars>>

\* i < n: out[i] = (char)toupper((unsigned char)s[i]); i++
ReWriteByte(c) ==
    /\ pc[c] = "re_loop"
    /\ i[c] < fmt_n[c]
    /\ IF i[c] < arg_cap[c]
       THEN /\ arg_out' = [arg_out EXCEPT ![c] =
                              Store(@, i[c], toupper(arg_in[c][i[c] + 1]))]
            /\ UNCHANGED oob
       ELSE /\ oob' = TRUE
            /\ UNCHANGED arg_out
    /\ i' = [i EXCEPT ![c] = i[c] + 1]
    /\ UNCHANGED <<mainVars, pairVars, buf, last_writer, arg_in, arg_cap,
                   fmt_n, p_ret, outp, shown, pc, counter, g_lock, tmp, semVars, callVars>>

\* i >= n: out[n] = '\0'; return
ReTerminate(c) ==
    /\ pc[c] = "re_loop"
    /\ i[c] >= fmt_n[c]
    /\ IF fmt_n[c] < arg_cap[c]
       THEN /\ arg_out' = [arg_out EXCEPT ![c] = Store(@, fmt_n[c], 0)]
            /\ UNCHANGED oob
       ELSE /\ oob' = TRUE
            /\ UNCHANGED arg_out
    /\ pc' = [pc EXCEPT ![c] = "done"]
    /\ UNCHANGED <<mainVars, pairVars, buf, last_writer, arg_in, arg_cap,
                   fmt_n, p_ret, outp, shown, i, counter, g_lock, tmp, semVars, callVars>>

upper_reentrant(c) ==
    \/ ReEnter(c)
    \/ ReWriteByte(c)
    \/ ReTerminate(c)

\* thread_fn_ok: upper_reentrant(a2->in, a2->out, a2->cap); return NULL;
thread_fn_ok(c) == upper_reentrant(c)

\* ---- reentrant_upper (w3) ----
\* size_t is unsigned: outcap - 1 with outcap = 0 wraps to the largest
\* value of the type.  The type is modelled with 8 bits, wide enough for
\* the wrapped value to exceed every capacity and every input length.
SizeRange == 256

\* size_t n = strlen(s); if (n >= outcap) n = outcap - 1;
\* (no test of outcap comes before the subtraction)
RuEnter(c) ==
    /\ pc[c] = "ru_strlen"
    /\ fmt_n' = [fmt_n EXCEPT ![c] =
                    IF strlen(arg_in[c]) >= arg_cap[c]
                    THEN (arg_cap[c] - 1) % SizeRange
                    ELSE strlen(arg_in[c])]
    /\ i' = [i EXCEPT ![c] = 0]
    /\ pc' = [pc EXCEPT ![c] = "ru_loop"]
    /\ UNCHANGED <<mainVars, pairVars, buf, oob, last_writer, arg_in, arg_out,
                   arg_cap, p_ret, outp, shown, counter, g_lock, tmp, semVars, callVars>>

\* i < n: out[i] = (char)toupper((unsigned char)s[i]); i++
\* A store at an index >= outcap is outside the destination (and, past the
\* terminator of s, the load is outside the input): undefined behaviour,
\* after which the loop either goes on or the process is killed by a fault.
RuWriteByte(c) ==
    /\ pc[c] = "ru_loop"
    /\ i[c] < fmt_n[c]
    /\ IF i[c] < arg_cap[c]
       THEN /\ arg_out' = [arg_out EXCEPT ![c] =
                              Store(@, i[c], toupper(arg_in[c][i[c] + 1]))]
            /\ i' = [i EXCEPT ![c] = i[c] + 1]
            /\ UNCHANGED <<oob, pc>>
       ELSE /\ oob' = TRUE
            /\ UNCHANGED arg_out
            /\ \/ /\ i' = [i EXCEPT ![c] = i[c] + 1]
                  /\ UNCHANGED pc
               \/ /\ pc' = [pc EXCEPT ![c] = "killed"]
                  /\ UNCHANGED i
    /\ UNCHANGED <<mainVars, pairVars, buf, last_writer, arg_in, arg_cap,
                   fmt_n, p_ret, outp, shown, counter, g_lock, tmp, semVars, callVars>>

\* Faulty variant: the terminator is stored in the last byte of the
\* destination as well
RuTerminatePads(c) ==
    /\ pc[c] = "ru_loop"
    /\ i[c] >= fmt_n[c]
    /\ arg_out' = [arg_out EXCEPT ![c] = Store(Store(@, fmt_n[c], 0), arg_cap[c] - 1, 0)]
    /\ pc' = [pc EXCEPT ![c] = "done"]
    /\ UNCHANGED <<mainVars, pairVars, buf, oob, last_writer, arg_in, arg_cap,
                   fmt_n, p_ret, outp, shown, i, counter, g_lock, tmp, semVars, callVars>>

\* i >= n: out[n] = '\0'; return
RuTerminate(c) ==
    /\ pc[c] = "ru_loop"
    /\ i[c] >= fmt_n[c]
    /\ IF fmt_n[c] < arg_cap[c]
       THEN /\ arg_out' = [arg_out EXCEPT ![c] = Store(@, fmt_n[c], 0)]
            /\ pc' = [pc EXCEPT ![c] = "done"]
            /\ UNCHANGED oob
       ELSE /\ oob' = TRUE
            /\ UNCHANGED arg_out
            /\ \E after \in {"done", "killed"} : pc' = [pc EXCEPT ![c] = after]
    /\ UNCHANGED <<mainVars, pairVars, buf, last_writer, arg_in, arg_cap,
                   fmt_n, p_ret, outp, shown, i, counter, g_lock, tmp, semVars, callVars>>

reentrant_upper(c) ==
    \/ RuEnter(c)
    \/ RuWriteByte(c)
    \/ RuTerminate(c)

\* ---- Workers without synchronisation ----
\* inc_no_lock (w6) and increment_without_lock_stressed (w3) are the same
\* body: read, yield/spin, add one to the copy, yield, write back.

\* long tmp = counter;
LoadNoLock(t) ==
    /\ pc[t] = "nl_load"
    /\ tmp' = [tmp EXCEPT ![t] = counter]
    /\ pc' = [pc EXCEPT ![t] = "nl_window"]
    /\ UNCHANGED <<mainVars, fmtVars, pairVars, counter, g_lock, i, semVars, callVars>>

\* Faulty variant: the private copy is not incremented
WindowNoLockNoIncrement(t) ==
    /\ pc[t] = "nl_window"
    /\ pc' = [pc EXCEPT ![t] = "nl_store"]
    /\ UNCHANGED <<mainVars, fmtVars, pairVars, counter, g_lock, i, tmp, semVars, callVars>>

\* sched_yield(); busy_spin(50); tmp = tmp + 1; sched_yield();
WindowNoLock(t) ==
    /\ pc[t] = "nl_window"
    /\ tmp' = [tmp EXCEPT ![t] = tmp[t] + 1]
    /\ pc' = [pc EXCEPT ![t] = "nl_store"]
    /\ UNCHANGED <<mainVars, fmtVars, pairVars, counter, g_lock, i, semVars, callVars>>

\* counter = tmp; i++; loop test
StoreNoLock(t) ==
    /\ pc[t] = "nl_store"
    /\ counter' = tmp[t]
    /\ tmp' = [tmp EXCEPT ![t] = 0]
    /\ pc' = [pc EXCEPT ![t] = AfterIter(t)]
    /\ i' = [i EXCEPT ![t] = i[t] + 1]
    /\ UNCHANGED <<mainVars, fmtVars, pairVars, g_lock, semVars, callVars>>

inc_no_lock(t) ==
    \/ LoadNoLock(t)
    \/ WindowNoLock(t)
    \/ StoreNoLock(t)

\* increment_without_lock (w3): counter++ compiled as load, add, store
\* counter++ : load
LoadNaive(t) ==
    /\ pc[t] = "na_load"
    /\ tmp' = [tmp EXCEPT ![t] = counter]
    /\ pc' = [pc EXCEPT ![t] = "na_store"]
    /\ UNCHANGED <<mainVars, fmtVars, pairVars, counter, g_lock, i, semVars, callVars>>

\* counter++ : add and store; i++; loop test
StoreNaive(t) ==
    /\ pc[t] = "na_store"
    /\ counter' = tmp[t] + 1
    /\ tmp' = [tmp EXCEPT ![t] = 0]
    /\ pc' = [pc EXCEPT ![t] = AfterIter(t)]
    /\ i' = [i EXCEPT ![t] = i[t] + 1]
    /\ UNCHANGED <<mainVars, fmtVars, pairVars, g_lock, semVars, callVars>>

increment_without_lock(t) ==
    \/ LoadNaive(t)
    \/ StoreNaive(t)

(* ----------------------- semc_wait / semc_post ------------------------- *)
\* Where semc_wait returns to in its caller.  A Client's call is a whole
\* loop iteration; the counter workers go on to their guarded body.
WaitReturn(t) ==
    CASE part = "Part6a" -> "sb_load"
      [] part = "Part6b" -> "st_load"
      [] part = "Part6bOne" -> "st_load"
      [] OTHER -> AfterIter(t)

\* semc_wait: pthread_mutex_lock(&s->m)
WaitLock(t) ==
    LET s == SemOf(part) IN
    /\ pc[t] = "wait_lock"
    /\ sem_m[s] = 0
    /\ sem_m' = [sem_m EXCEPT ![s] = t]
    /\ pc' = [pc EXCEPT ![t] = "wait_test"]
    /\ UNCHANGED <<mainVars, fmtVars, pairVars, counter, g_lock, i, tmp, sem_count, sem_cv,
                   sem_live, sem_initial, callVars>>

\* Faulty variant: the loop condition written `s->count < 0`.
WaitTestWrongCompare(t) ==
    LET s == SemOf(part) IN
    /\ pc[t] = "wait_test"
    /\ IF sem_count[s] < 0
       THEN /\ sem_m' = [sem_m EXCEPT ![s] = 0]
            /\ sem_cv' = [sem_cv EXCEPT ![s] = @ \cup {t}]
            /\ pc' = [pc EXCEPT ![t] = "cond_wait"]
       ELSE /\ pc' = [pc EXCEPT ![t] = "wait_dec"]
            /\ UNCHANGED <<sem_m, sem_cv>>
    /\ UNCHANGED <<mainVars, fmtVars, pairVars, counter, g_lock, i, tmp, sem_count,
                   sem_live, sem_initial, callVars>>

\* semc_wait: while (s->count == 0) pthread_cond_wait(&s->cv, &s->m);
\* pthread_cond_wait releases m and blocks the caller on cv in one step.
WaitTest(t) ==
    LET s == SemOf(part) IN
    /\ pc[t] = "wait_test"
    /\ IF sem_count[s] = 0
       THEN /\ sem_m' = [sem_m EXCEPT ![s] = 0]
            /\ sem_cv' = [sem_cv EXCEPT ![s] = @ \cup {t}]
            /\ pc' = [pc EXCEPT ![t] = "cond_wait"]
       ELSE /\ pc' = [pc EXCEPT ![t] = "wait_dec"]
            /\ UNCHANGED <<sem_m, sem_cv>>
    /\ UNCHANGED <<mainVars, fmtVars, pairVars, counter, g_lock, i, tmp, sem_count,
                   sem_live, sem_initial, callVars>>

\* pthread_cond_wait may wake without any signal (spurious wake-up).
SpuriousWake(t) ==
    LET s == SemOf(part) IN
    /\ pc[t] = "cond_wait"
    /\ t \in sem_cv[s]
    /\ sem_cv' = [sem_cv EXCEPT ![s] = @ \ {t}]
    /\ UNCHANGED <<mainVars, fmtVars, pairVars, counter, g_lock, workerVars, sem_count, sem_m,
                   sem_live, sem_initial, callVars>>

\* Faulty variant: `if (s->count == 0)` in place of `while`: no re-test after a wake-up.
AfterCondWaitNoRetest == "wait_dec"

\* Where a thread continues once pthread_cond_wait has returned: the loop
\* condition of `while (s->count == 0)` is evaluated again.
AfterCondWait == "wait_test"

\* pthread_cond_wait returning: the woken thread re-acquires m first.
CondWaitReturn(t) ==
    LET s == SemOf(part) IN
    /\ pc[t] = "cond_wait"
    /\ t \notin sem_cv[s]
    /\ sem_m[s] = 0
    /\ sem_m' = [sem_m EXCEPT ![s] = t]
    /\ pc' = [pc EXCEPT ![t] = AfterCondWait]
    /\ UNCHANGED <<mainVars, fmtVars, pairVars, counter, g_lock, i, tmp, sem_count, sem_cv,
                   sem_live, sem_initial, callVars>>

\* Faulty variant: semc_wait without the decrement.
WaitDecForgotten(t) ==
    /\ pc[t] = "wait_dec"
    /\ waits' = [waits EXCEPT ![t] = @ + 1]
    /\ pc' = [pc EXCEPT ![t] = "wait_unlock"]
    /\ UNCHANGED <<mainVars, fmtVars, pairVars, counter, g_lock, i, tmp, semVars, posts>>

\* semc_wait: s->count--;
WaitDec(t) ==
    LET s == SemOf(part) IN
    /\ pc[t] = "wait_dec"
    /\ sem_count' = [sem_count EXCEPT ![s] = @ - 1]
    /\ waits' = [waits EXCEPT ![t] = @ + 1]
    /\ pc' = [pc EXCEPT ![t] = "wait_unlock"]
    /\ UNCHANGED <<mainVars, fmtVars, pairVars, counter, g_lock, i, tmp, sem_m, sem_cv,
                   sem_live, sem_initial, posts>>

\* semc_wait: pthread_mutex_unlock(&s->m); return
WaitUnlock(t) ==
    LET s == SemOf(part) IN
    /\ pc[t] = "wait_unlock"
    /\ sem_m' = [sem_m EXCEPT ![s] = 0]
    /\ pc' = [pc EXCEPT ![t] = WaitReturn(t)]
    /\ i' = [i EXCEPT ![t] = IF part = "Client" THEN @ + 1 ELSE @]
    /\ UNCHANGED <<mainVars, fmtVars, pairVars, counter, g_lock, tmp, sem_count, sem_cv,
                   sem_live, sem_initial, callVars>>

semc_wait(t) ==
    \/ WaitLock(t)
    \/ WaitTest(t)
    \/ CondWaitReturn(t)
    \/ WaitDec(t)
    \/ WaitUnlock(t)

\* Faulty variant: an ownership-checked post, which only a permit holder may enter.
PostLockOwnerOnly(t) ==
    LET s == SemOf(part) IN
    /\ pc[t] = "post_lock"
    /\ waits[t] > posts[t]
    /\ sem_m[s] = 0
    /\ sem_m' = [sem_m EXCEPT ![s] = t]
    /\ pc' = [pc EXCEPT ![t] = "post_inc"]
    /\ UNCHANGED <<mainVars, fmtVars, pairVars, counter, g_lock, i, tmp, sem_count, sem_cv,
                   sem_live, sem_initial, callVars>>

\* semc_post: pthread_mutex_lock(&s->m)
PostLock(t) ==
    LET s == SemOf(part) IN
    /\ pc[t] = "post_lock"
    /\ sem_m[s] = 0
    /\ sem_m' = [sem_m EXCEPT ![s] = t]
    /\ pc' = [pc EXCEPT ![t] = "post_inc"]
    /\ UNCHANGED <<mainVars, fmtVars, pairVars, counter, g_lock, i, tmp, sem_count, sem_cv,
                   sem_live, sem_initial, callVars>>

\* Faulty variant: semc_post adding two permits.
PostIncTwice(t) ==
    LET s == SemOf(part) IN
    /\ pc[t] = "post_inc"
    /\ sem_count' = [sem_count EXCEPT ![s] = @ + 2]
    /\ posts' = [posts EXCEPT ![t] = @ + 1]
    /\ pc' = [pc EXCEPT ![t] = "post_signal"]
    /\ UNCHANGED <<mainVars, fmtVars, pairVars, counter, g_lock, i, tmp, sem_m, sem_cv,
                   sem_live, sem_initial, waits>>

\* semc_post: s->count++;
PostInc(t) ==
    LET s == SemOf(part) IN
    /\ pc[t] = "post_inc"
    /\ sem_count' = [sem_count EXCEPT ![s] = @ + 1]
    /\ posts' = [posts EXCEPT ![t] = @ + 1]
    /\ pc' = [pc EXCEPT ![t] = "post_signal"]
    /\ UNCHANGED <<mainVars, fmtVars, pairVars, counter, g_lock, i, tmp, sem_m, sem_cv,
                   sem_live, sem_initial, waits>>

\* Faulty variant: a signal that wakes nobody.
CondSignalNone(cv) == {cv}

\* pthread_cond_signal: the waiter sets the call may leave behind.  With no
\* waiter it does nothing; otherwise it unblocks one waiter (that it may
\* unblock more is covered by SpuriousWake).
CondSignal(cv) == IF cv = {} THEN {cv} ELSE {cv \ {w} : w \in cv}

\* Faulty variant: semc_post without the pthread_cond_signal call.
PostSignalSkipped(t) ==
    /\ pc[t] = "post_signal"
    /\ pc' = [pc EXCEPT ![t] = "post_unlock"]
    /\ UNCHANGED <<mainVars, fmtVars, pairVars, counter, g_lock, i, tmp, semVars, callVars>>

\* semc_post: pthread_cond_signal(&s->cv);
PostSignal(t) ==
    LET s == SemOf(part) IN
    /\ pc[t] = "post_signal"
    /\ \E after \in CondSignal(sem_cv[s]) :
          sem_cv' = [sem_cv EXCEPT ![s] = after]
    /\ pc' = [pc EXCEPT ![t] = "post_unlock"]
    /\ UNCHANGED <<mainVars, fmtVars, pairVars, counter, g_lock, i, tmp, sem_count, sem_m,
                   sem_live, sem_initial, callVars>>

\* semc_post: pthread_mutex_unlock(&s->m); return; then the caller's i++
PostUnlock(t) ==
    LET s == SemOf(part) IN
    /\ pc[t] = "post_unlock"
    /\ sem_m' = [sem_m EXCEPT ![s] = 0]
    /\ pc' = [pc EXCEPT ![t] = AfterIter(t)]
    /\ i' = [i EXCEPT ![t] = @ + 1]
    /\ UNCHANGED <<mainVars, fmtVars, pairVars, counter, g_lock, tmp, sem_count, sem_cv,
                   sem_live, sem_initial, callVars>>

semc_post(t) ==
    \/ PostLock(t)
    \/ PostInc(t)
    \/ PostSignal(t)
    \/ PostUnlock(t)

(* ---------------------- worker: binary semaphore ----------------------- *)
\* counter++ : load        (between semc_wait(&sem_bin) and semc_post)
LoadBinary(t) ==
    /\ pc[t] = "sb_load"
    /\ tmp' = [tmp EXCEPT ![t] = counter]
    /\ pc' = [pc EXCEPT ![t] = "sb_store"]
    /\ UNCHANGED <<mainVars, fmtVars, pairVars, counter, g_lock, i, semVars, callVars>>

\* counter++ : store; then the call of semc_post(&sem_bin)
StoreBinary(t) ==
    /\ pc[t] = "sb_store"
    /\ counter' = tmp[t] + 1
    /\ tmp' = [tmp EXCEPT ![t] = 0]
    /\ pc' = [pc EXCEPT ![t] = "post_lock"]
    /\ UNCHANGED <<mainVars, fmtVars, pairVars, g_lock, i, semVars, callVars>>

inc_with_sem_binary(t) ==
    \/ semc_wait(t)
    \/ LoadBinary(t)
    \/ StoreBinary(t)
    \/ semc_post(t)

(* -------------------- worker: three-permit semaphore ------------------- *)
\* long tmp = counter;
LoadThree(t) ==
    /\ pc[t] = "st_load"
    /\ tmp' = [tmp EXCEPT ![t] = counter]
    /\ pc' = [pc EXCEPT ![t] = "st_spin"]
    /\ UNCHANGED <<mainVars, fmtVars, pairVars, counter, g_lock, i, semVars, callVars>>

\* busy_spin(30);
SpinThree(t) ==
    /\ pc[t] = "st_spin"
    /\ pc' = [pc EXCEPT ![t] = "st_store"]
    /\ UNCHANGED <<mainVars, fmtVars, pairVars, counter, g_lock, i, tmp, semVars, callVars>>

\* Faulty variant: the write-back without the increment.
StoreThreeNoIncrement(t) ==
    /\ pc[t] = "st_store"
    /\ counter' = tmp[t]
    /\ tmp' = [tmp EXCEPT ![t] = 0]
    /\ pc' = [pc EXCEPT ![t] = "post_lock"]
    /\ UNCHANGED <<mainVars, fmtVars, pairVars, g_lock, i, semVars, callVars>>

\* counter = tmp + 1; then the call of semc_post(&sem_three)
StoreThree(t) ==
    /\ pc[t] = "st_store"
    /\ counter' = tmp[t] + 1
    /\ tmp' = [tmp EXCEPT ![t] = 0]
    /\ pc' = [pc EXCEPT ![t] = "post_lock"]
    /\ UNCHANGED <<mainVars, fmtVars, pairVars, g_lock, i, semVars, callVars>>

inc_with_sem_three(t) ==
    \/ semc_wait(t)
    \/ LoadThree(t)
    \/ SpinThree(t)
    \/ StoreThree(t)
    \/ semc_post(t)

(* ----------------- stand-alone client of the semaphore ----------------- *)
\* A task that makes ITERATIONS calls, each one semc_wait(&sem_bin) or
\* semc_post(&sem_bin), in any order and with no pairing.
ClientCall(t) ==
    /\ pc[t] = "call"
    /\ \E f \in {"wait_lock", "post_lock"} : pc' = [pc EXCEPT ![t] = f]
    /\ UNCHANGED <<mainVars, fmtVars, pairVars, counter, g_lock, i, tmp, semVars, callVars>>

Client(t) ==
    \/ ClientCall(t)
    \/ semc_wait(t)
    \/ semc_post(t)

(* ------------------------------ main ----------------------------------- *)
UsesSem(p) == p \in {"Part6a", "Part6b", "Part6bOne"}

\* semc_init(&sem, initial);
MainSemInit ==
    LET s == SemOf(part) IN
    /\ main_pc = "init"
    /\ sem_count' = [sem_count EXCEPT ![s] = InitialOf(s)]
    /\ sem_initial' = [sem_initial EXCEPT ![s] = InitialOf(s)]
    /\ sem_m' = [sem_m EXCEPT ![s] = 0]
    /\ sem_cv' = [sem_cv EXCEPT ![s] = {}]
    /\ sem_live' = [sem_live EXCEPT ![s] = TRUE]
    /\ main_pc' = "reset"
    /\ UNCHANGED <<cfgVars, fmtVars, pairVars, main_i, got, counter, g_lock, workerVars, callVars>>

\* Part 6b with the permit count of line 270 changed from 3 to 1:
\* semc_init(&sem_three, 1);
MainSemInitOne ==
    /\ part = "Part6bOne"
    /\ main_pc = "init"
    /\ sem_count' = [sem_count EXCEPT !["sem_three"] = BinaryPermits]
    /\ sem_initial' = [sem_initial EXCEPT !["sem_three"] = BinaryPermits]
    /\ sem_m' = [sem_m EXCEPT !["sem_three"] = 0]
    /\ sem_cv' = [sem_cv EXCEPT !["sem_three"] = {}]
    /\ sem_live' = [sem_live EXCEPT !["sem_three"] = TRUE]
    /\ main_pc' = "reset"
    /\ UNCHANGED <<cfgVars, fmtVars, pairVars, main_i, got, counter, g_lock, workerVars, callVars>>

\* counter = 0;
MainReset ==
    /\ main_pc = "reset"
    /\ counter' = 0
    /\ main_pc' = "create"
    /\ main_i' = 0
    /\ UNCHANGED <<cfgVars, fmtVars, pairVars, got, g_lock, workerVars, semVars, callVars>>

\* for (i < THREADS) pthread_create(&t[i], NULL, fn, NULL);
MainCreate ==
    /\ main_pc = "create"
    /\ IF main_i < THREADS
       THEN /\ pc' = [pc EXCEPT ![main_i + 1] = StartLabel(part)]
            /\ main_i' = main_i + 1
            /\ UNCHANGED main_pc
       ELSE /\ main_pc' = "join"
            /\ main_i' = 0
            /\ UNCHANGED pc
    /\ UNCHANGED <<cfgVars, fmtVars, pairVars, got, counter, g_lock, i, tmp, semVars, callVars>>

\* Faulty variant: the join returns without waiting for the worker to finish
MainJoinNoWait ==
    /\ main_pc = "join"
    /\ IF main_i < THREADS
       THEN /\ main_i' = main_i + 1
            /\ UNCHANGED <<main_pc, pc>>
       ELSE /\ main_pc' = "print"
            /\ UNCHANGED <<pc, main_i>>
    /\ UNCHANGED <<cfgVars, fmtVars, pairVars, got, counter, g_lock, i, tmp, semVars, callVars>>

\* for (i < THREADS) pthread_join(t[i], NULL);
MainJoin ==
    /\ main_pc = "join"
    /\ IF main_i < THREADS
       THEN /\ pc[main_i + 1] = "done"
            /\ pc' = [pc EXCEPT ![main_i + 1] = "joined"]
            /\ main_i' = main_i + 1
            /\ UNCHANGED main_pc
       ELSE /\ main_pc' = "print"
            /\ UNCHANGED <<pc, main_i>>
    /\ UNCHANGED <<cfgVars, fmtVars, pairVars, got, counter, g_lock, i, tmp, semVars, callVars>>

\* The remark that follows the two numbers in the format string of each
\* counter scenario's printf: "<-- likely WRONG due to lost updates" (Part 1),
\* "<-- race likely caused lost updates" (Part A2), "<-- likely WRONG again
\* (not exclusive)" (Part 6b) read as "fail"; the check mark of Part 2,
\* Part B and Part 6a reads as "pass"; Part A prints the numbers alone.
\* The remark is literal text of the format string.
Indicator(p) ==
    CASE p \in {"Part1", "Part6b", "Part6bOne"} -> "fail"
      [] p \in {"Part2", "Part6a"} -> "pass"
      [] OTHER -> "none"

\* printf("Expected: %d, got: %ld ...", THREADS * ITERATIONS, counter);
MainPrint ==
    /\ main_pc = "print"
    /\ got' = counter
    /\ main_pc' = IF UsesSem(part) THEN "destroy" ELSE "end"
    /\ UNCHANGED <<cfgVars, fmtVars, pairVars, main_i, counter, g_lock, workerVars, semVars, callVars>>

\* Faulty variant: the pair is left as the previous scenario left it
MainResetPairKeeps ==
    /\ main_pc = "reset"
    /\ broke' = 0
    /\ main_pc' = "create"
    /\ UNCHANGED <<cfgVars, fmtVars, main_i, got, pair_vals, ta, tb, ret, report,
                   counter, g_lock, workerVars, semVars, callVars>>

\* pair_vals.a = pair_vals.b = 0;  (Bonus A also: int broke = 0;)
MainResetPair ==
    /\ main_pc = "reset"
    /\ pair_vals' = [a |-> 0, b |-> 0]
    /\ broke' = 0
    /\ main_pc' = "create"
    /\ UNCHANGED <<cfgVars, fmtVars, main_i, got, ta, tb, ret, report,
                   counter, g_lock, workerVars, semVars, callVars>>

\* Faulty variant: the workers' return values are not looked at
MainJoinPairIgnoresRet ==
    /\ main_pc = "join"
    /\ IF main_i < THREADS
       THEN /\ pc[main_i + 1] = "done"
            /\ pc' = [pc EXCEPT ![main_i + 1] = "joined"]
            /\ main_i' = main_i + 1
            /\ UNCHANGED main_pc
       ELSE /\ main_pc' = "print"
            /\ UNCHANGED <<pc, main_i>>
    /\ UNCHANGED <<cfgVars, fmtVars, got, pair_vals, ta, tb, ret, broke, report,
                   counter, g_lock, i, tmp, semVars, callVars>>

\* for (i < THREADS) { void *ret = NULL; pthread_join(ts[i], &ret);
\*                     if ((long)ret == 1) broke = 1; }
MainJoinPair ==
    /\ main_pc = "join"
    /\ IF main_i < THREADS
       THEN /\ pc[main_i + 1] = "done"
            /\ pc' = [pc EXCEPT ![main_i + 1] = "joined"]
            /\ broke' = IF ret[main_i + 1] = 1 THEN 1 ELSE broke
            /\ main_i' = main_i + 1
            /\ UNCHANGED main_pc
       ELSE /\ main_pc' = "print"
            /\ UNCHANGED <<pc, main_i, broke>>
    /\ UNCHANGED <<cfgVars, fmtVars, got, pair_vals, ta, tb, ret, report,
                   counter, g_lock, i, tmp, semVars, callVars>>

\* printf("Invariant a==b broken? %s (a=%ld, b=%ld)", broke ? "YES" : "NO", ...);
MainPrintBonusA ==
    /\ part = "BonusA"
    /\ main_pc = "print"
    /\ report' = IF broke # 0 THEN "YES" ELSE "NO"
    /\ main_pc' = "end"
    /\ UNCHANGED <<cfgVars, fmtVars, main_i, got, pair_vals, ta, tb, ret, broke,
                   counter, g_lock, workerVars, semVars, callVars>>

\* printf("Invariant a==b holds?  %s ...", (pair_vals.a == pair_vals.b) ? "YES" : "NO", ...);
MainPrintBonusB ==
    /\ part = "BonusB"
    /\ main_pc = "print"
    /\ report' = IF pair_vals.a = pair_vals.b THEN "YES" ELSE "NO"
    /\ main_pc' = "end"
    /\ UNCHANGED <<cfgVars, fmtVars, main_i, got, pair_vals, ta, tb, ret, broke,
                   counter, g_lock, workerVars, semVars, callVars>>

\* Part 3: p = upper_not_reentrant(...): main enters the call
MainCall ==
    /\ main_pc = "call"
    /\ pc' = [pc EXCEPT ![main_i + 1] = StartLabel(part)]
    /\ main_pc' = "in_call"
    /\ UNCHANGED <<cfgVars, fmtVars, pairVars, main_i, got, counter, g_lock, i, tmp,
                   semVars, callVars>>

\* Part 3: the call has returned: p1 / p2 takes the result and
\* printf("... -> %s", p) prints what it points to
MainAfterCall ==
    /\ main_pc = "in_call"
    /\ pc[main_i + 1] = "returned"
    /\ outp' = [outp EXCEPT ![main_i + 1] = p_ret[main_i + 1]]
    /\ shown' = [shown EXCEPT ![main_i + 1] = CStr(BufMem)]
    /\ pc' = [pc EXCEPT ![main_i + 1] = "done"]
    /\ main_i' = main_i + 1
    /\ main_pc' = IF main_i + 1 < THREADS THEN "call" ELSE "end"
    /\ UNCHANGED <<cfgVars, pairVars, buf, oob, last_writer, arg_in, arg_out,
                   arg_cap, fmt_n, p_ret, got, counter, g_lock, i, tmp,
                   semVars, callVars>>

\* Part 3b: printf("Thread A saw: %s", outA); printf("Thread B saw: %s", outB);
MainPrintBad ==
    /\ part \in ThreadedBad
    /\ main_pc = "print"
    /\ shown' = [c \in Callers |-> IF outp[c] = "buf" THEN CStr(BufMem) ELSE <<>>]
    /\ main_pc' = "end"
    /\ UNCHANGED <<cfgVars, pairVars, buf, oob, last_writer, arg_in, arg_out,
                   arg_cap, fmt_n, p_ret, outp, main_i, got, counter, g_lock,
                   workerVars, semVars, callVars>>

\* Part 4: printf("Thread-safe results: A=\"%s\", B=\"%s\"", A_buf, B_buf);
MainPrintOk ==
    /\ part = "Part4"
    /\ main_pc = "print"
    /\ shown' = [c \in Callers |-> CStr(arg_out[c])]
    /\ main_pc' = "end"
    /\ UNCHANGED <<cfgVars, pairVars, buf, oob, last_writer, arg_in, arg_out,
                   arg_cap, fmt_n, p_ret, outp, main_i, got, counter, g_lock,
                   workerVars, semVars, callVars>>

\* Part C1 (w3): a call of reentrant_upper has returned; after the second
\* one printf("Reentrant calls preserved: \"%s\" and \"%s\"", r1, r2);
MainAfterRu ==
    /\ part = "PartC1"
    /\ main_pc = "in_call"
    /\ pc[main_i + 1] = "done"
    /\ pc' = [pc EXCEPT ![main_i + 1] = "joined"]
    /\ main_i' = main_i + 1
    /\ IF main_i + 1 < THREADS
       THEN /\ main_pc' = "call"
            /\ UNCHANGED shown
       ELSE /\ main_pc' = "end"
            /\ shown' = [c \in Callers |-> CStr(arg_out[c])]
    /\ UNCHANGED <<cfgVars, pairVars, buf, oob, last_writer, arg_in, arg_out,
                   arg_cap, fmt_n, p_ret, outp, got, counter, g_lock, i, tmp,
                   semVars, callVars>>

\* semc_destroy(&sem);
MainSemDestroy ==
    LET s == SemOf(part) IN
    /\ main_pc = "destroy"
    /\ sem_live' = [sem_live EXCEPT ![s] = FALSE]
    /\ main_pc' = "end"
    /\ UNCHANGED <<cfgVars, fmtVars, pairVars, main_i, got, counter, g_lock, workerVars,
                   sem_count, sem_m, sem_cv, sem_initial, callVars>>

(* --------------------------- specifications ---------------------------- *)
\* State at the start of a counter section of main(): no worker exists, the
\* counter holds whatever the previous section left behind, the semaphores
\* are zero-initialised statics.
\* The formatter state at program start: buf is static, hence zeroed, and
\* nothing has been written to it; no call has been made.
InitFmtCalls ==
    /\ buf = Filled(0, 0)
    /\ oob = FALSE
    /\ last_writer = Filled(0, 0)
    /\ fmt_n = [c \in Callers |-> 0]
    /\ p_ret = [c \in Callers |-> "NULL"]
    /\ outp = [c \in Callers |-> "NULL"]
    /\ shown = [c \in Callers |-> <<>>]
InitFmtIdle ==
    /\ InitFmtCalls
    /\ arg_in = [c \in Callers |-> <<>>]
    /\ arg_out = [c \in Callers |-> Filled(0, 0)]
    /\ arg_cap = [c \in Callers |-> 0]

\* The pair before a scenario starts: zero at program start; the locked pair
\* scenario follows the unlocked one and inherits whatever it left behind.
PairStart(p) ==
    IF p = "BonusB"
    THEN {[a |-> 0, b |-> 0], [a |-> 1, b |-> 2], [a |-> MaxThreads * MaxIter, b |-> 1]}
    ELSE {[a |-> 0, b |-> 0]}
InitPair(p) ==
    /\ pair_vals \in PairStart(p)
    /\ ta = [t \in Threads |-> 0]
    /\ tb = [t \in Threads |-> 0]
    /\ ret = [t \in Threads |-> 0]
    /\ broke = 0
    /\ report = "none"

\* Workers of the unlocked pair scenario. Two workers are what the race
\* needs; each of them takes seven steps per iteration, and a third worker
\* with two iterations already gives 18 million states.
MaxPairThreads == 2

\* Largest THREADS and ITERATIONS explored for a scenario
ThreadsBound(p) ==
    CASE p = "Part6b" -> MaxThreadsThree
      [] p \in {"Part1", "PartA"} -> MaxRaceThreads
      [] p = "BonusA" -> MaxPairThreads
      [] OTHER -> MaxThreads
IterBound(p) ==
    CASE p = "Part6b" -> MaxIterThree
      [] p \in {"Part1", "PartA", "BonusA"} -> MaxRaceIter
      [] OTHER -> MaxIter

InitSection(p) ==
    /\ part = p
    /\ THREADS \in 1..ThreadsBound(p)
    /\ ITERATIONS \in 1..IterBound(p)
    /\ main_pc = IF UsesSem(p) THEN "init" ELSE "reset"
    /\ main_i = 0
    /\ got = -1
    /\ counter \in {0, MaxThreads * MaxIter}
    /\ g_lock = 0
    /\ pc = [t \in Threads |-> "idle"]
    /\ i = [t \in Threads |-> 0]
    /\ tmp = [t \in Threads |-> 0]
    /\ sem_count = [s \in Sems |-> 0]
    /\ sem_m = [s \in Sems |-> 0]
    /\ sem_cv = [s \in Sems |-> {}]
    /\ sem_live = [s \in Sems |-> FALSE]
    /\ sem_initial = [s \in Sems |-> 0]
    /\ waits = [t \in Threads |-> 0]
    /\ posts = [t \in Threads |-> 0]
    /\ InitPair(part)
    /\ InitFmtIdle

\* Part 2: counter with mutex
InitPart2 == InitSection("Part2")
NextPart2 ==
    \/ MainReset
    \/ MainCreate
    \/ MainJoin
    \/ MainPrint
    \/ \E t \in Threads : inc_with_lock(t)
SpecPart2 == InitPart2 /\ [][NextPart2]_vars

\* Part 6a: binary semaphore used like a mutex
InitPart6a == InitSection("Part6a")
NextPart6a ==
    \/ MainSemInit
    \/ MainReset
    \/ MainCreate
    \/ MainJoin
    \/ MainPrint
    \/ MainSemDestroy
    \/ \E t \in Threads : inc_with_sem_binary(t)
    \/ \E t \in Threads : SpuriousWake(t)
SpecPart6a == InitPart6a /\ [][NextPart6a]_vars

\* Part 6b: counting semaphore with 3 permits
InitPart6b == InitSection("Part6b")
NextPart6b ==
    \/ MainSemInit
    \/ MainReset
    \/ MainCreate
    \/ MainJoin
    \/ MainPrint
    \/ MainSemDestroy
    \/ \E t \in Threads : inc_with_sem_three(t)
    \/ \E t \in Threads : SpuriousWake(t)
SpecPart6b == InitPart6b /\ [][NextPart6b]_vars

\* Part 6b run under a semaphore with one permit instead of three
InitPart6bOne == InitSection("Part6bOne")
NextPart6bOne ==
    \/ MainSemInitOne
    \/ MainReset
    \/ MainCreate
    \/ MainJoin
    \/ MainPrint
    \/ MainSemDestroy
    \/ \E t \in Threads : inc_with_sem_three(t)
    \/ \E t \in Threads : SpuriousWake(t)
SpecPart6bOne == InitPart6bOne /\ [][NextPart6bOne]_vars

\* Part 1 (w6) / Part A2 (w3): stressed counter without lock, and
\* Part A (w3): naive counter without lock
InitRace == InitSection("Part1") \/ InitSection("PartA")
NextRace ==
    \/ MainReset
    \/ MainCreate
    \/ MainJoin
    \/ MainPrint
    \/ \E t \in Threads : part = "Part1" /\ inc_no_lock(t)
    \/ \E t \in Threads : part = "PartA" /\ increment_without_lock(t)
SpecRace == InitRace /\ [][NextRace]_vars

\* Bonus A (w3): the pair without the lock
InitBonusA == InitSection("BonusA")
NextBonusA ==
    \/ MainResetPair
    \/ MainCreate
    \/ MainJoinPair
    \/ MainPrintBonusA
    \/ \E t \in Threads : touch_pair_without_lock(t)
SpecBonusA == InitBonusA /\ [][NextBonusA]_vars

\* Bonus B (w3): the pair with the lock
InitBonusB == InitSection("BonusB")
NextBonusB ==
    \/ MainResetPair
    \/ MainCreate
    \/ MainJoin
    \/ MainPrintBonusB
    \/ \E t \in Threads : touch_pair_with_lock(t)
SpecBonusB == InitBonusB /\ [][NextBonusB]_vars

\* The counter and pair scenarios of both programs, each from its own start
\* (the three-permit scenario is SpecPart6b)
InitScenarios ==
    \/ InitRace
    \/ InitPart2
    \/ InitPart6a
    \/ InitBonusA
    \/ InitBonusB
NextScenarios ==
    \/ part \in {"Part1", "PartA"} /\ NextRace
    \/ part = "Part2" /\ NextPart2
    \/ part = "Part6a" /\ NextPart6a
    \/ part = "BonusA" /\ NextBonusA
    \/ part = "BonusB" /\ NextBonusB
SpecScenarios == InitScenarios /\ [][NextScenarios]_vars

\* ---- Formatter scenarios ----
\* Input lengths around the ends of the range
EdgeLens == (0..MaxShortLen) \cup ((BufSize - 2)..MaxLen)
NamedInputs == {Hello, World, MixedHello}
FirstInputs == NamedInputs \cup {Pattern(L) : L \in 0..MaxLen}
SecondInputs == NamedInputs \cup {Pattern(L) : L \in EdgeLens}
ShortInputs == {Abcdef, Xyz123} \cup {Pattern(L) : L \in 0..MaxShortLen}
\* Destination capacities: small ones and the 64 of A_buf and B_buf
Caps == (1..MaxCap) \cup {BufSize}
\* What an uninitialised destination may hold
Garbage == {0, 35}
\* buf as "world" left it
BufAfterWorld == [k \in 0..strlen(World) |->
                    IF k < strlen(World) THEN toupper(World[k + 1]) ELSE 0]

\* Everything outside the formatter, for a scenario p with two callers
InitFormat(p, start) ==
    /\ part = p
    /\ THREADS = 2
    /\ ITERATIONS = 1
    /\ main_pc = start
    /\ main_i = 0
    /\ got = -1
    /\ counter = 0
    /\ g_lock = 0
    /\ pc = [t \in Threads |-> "idle"]
    /\ i = [t \in Threads |-> 0]
    /\ tmp = [t \in Threads |-> 0]
    /\ sem_count = [s \in Sems |-> 0]
    /\ sem_m = [s \in Sems |-> 0]
    /\ sem_cv = [s \in Sems |-> {}]
    /\ sem_live = [s \in Sems |-> FALSE]
    /\ sem_initial = [s \in Sems |-> 0]
    /\ waits = [t \in Threads |-> 0]
    /\ posts = [t \in Threads |-> 0]
    /\ InitPair(p)
    /\ oob = FALSE
    /\ last_writer = Filled(0, 0)
    /\ fmt_n = [c \in Callers |-> 0]
    /\ p_ret = [c \in Callers |-> "NULL"]
    /\ outp = [c \in Callers |-> "NULL"]
    /\ shown = [c \in Callers |-> <<>>]

\* Part 3: two calls of the non-reentrant formatter, one after the other
InitPart3 ==
    /\ InitFormat("Part3", "call")
    /\ buf = Filled(0, 0)
    /\ \E s1 \in FirstInputs, s2 \in SecondInputs :
          arg_in = [c \in Callers |-> IF c = 1 THEN s1 ELSE s2]
    /\ arg_cap = [c \in Callers |-> 0]
    /\ arg_out = [c \in Callers |-> Filled(0, 0)]
NextPart3 ==
    \/ MainCall
    \/ MainAfterCall
    \/ \E c \in Callers : upper_not_reentrant(c)
SpecPart3 == InitPart3 /\ [][NextPart3]_vars

\* Part 3b: the non-reentrant formatter in two threads; buf is fresh or as
\* Part 3 left it
InitPart3b ==
    /\ InitFormat("Part3b", "create")
    /\ buf \in {Filled(0, 0), BufAfterWorld}
    /\ arg_in \in [Callers -> ShortInputs]
    /\ arg_cap = [c \in Callers |-> 0]
    /\ arg_out = [c \in Callers |-> Filled(0, 0)]
NextPart3b ==
    \/ MainCreate
    \/ MainJoin
    \/ MainPrintBad
    \/ \E c \in Callers : thread_fn_bad(c)
SpecPart3b == InitPart3b /\ [][NextPart3b]_vars

\* Part 4: the reentrant formatter in two threads
InitPart4 ==
    /\ InitFormat("Part4", "create")
    /\ buf = Filled(0, 0)
    /\ arg_in \in [Callers -> ShortInputs]
    /\ arg_cap \in [Callers -> Caps]
    /\ \E g \in Garbage : arg_out = [c \in Callers |-> Filled(arg_cap[c], g)]
NextPart4 ==
    \/ MainCreate
    \/ MainJoin
    \/ MainPrintOk
    \/ \E c \in Callers : thread_fn_ok(c)
SpecPart4 == InitPart4 /\ [][NextPart4]_vars

\* The reentrant formatter of either program called with capacities from 0
\* up: upper_reentrant in two threads (w6 Part 4), reentrant_upper in two
\* calls of main, one after the other (w3 Part C1).  A process killed by a
\* fault takes no further step.
InitZeroCap ==
    /\ InitFormat("Part4", "create") \/ InitFormat("PartC1", "call")
    /\ buf = Filled(0, 0)
    /\ arg_in \in [Callers -> ShortInputs]
    /\ arg_cap \in [Callers -> 0..MaxCap]
    /\ \E g \in Garbage : arg_out = [c \in Callers |-> Filled(arg_cap[c], g)]
NextZeroCap ==
    /\ \A t \in Threads : pc[t] # "killed"
    /\ \/ part = "Part4" /\ NextPart4
       \/ part = "PartC1" /\ MainCall
       \/ part = "PartC1" /\ MainAfterRu
       \/ \E c \in Callers : part = "PartC1" /\ reentrant_upper(c)
SpecZeroCap == InitZeroCap /\ [][NextZeroCap]_vars

\* ---- The two programs from start to end ----
\* One step of worker (or caller) t in the section main is in
WorkerStep(t) ==
    \/ part \in {"Part1", "PartA2"} /\ inc_no_lock(t)
    \/ part = "PartA" /\ increment_without_lock(t)
    \/ part \in {"Part2", "PartB"} /\ inc_with_lock(t)
    \/ part = "BonusA" /\ touch_pair_without_lock(t)
    \/ part = "BonusB" /\ touch_pair_with_lock(t)
    \/ part \in {"Part3", "PartC1n"} /\ t \in Callers /\ upper_not_reentrant(t)
    \/ part = "PartC1" /\ t \in Callers /\ reentrant_upper(t)
    \/ part \in ThreadedBad /\ t \in Callers /\ thread_fn_bad(t)
    \/ part = "Part4" /\ t \in Callers /\ thread_fn_ok(t)
    \/ part = "Part6a" /\ inc_with_sem_binary(t)
    \/ part = "Part6b" /\ inc_with_sem_three(t)

\* One step of main inside a section
MainStep ==
    \/ /\ part \in {"Part1", "PartA", "PartA2", "Part2", "PartB", "Part6a", "Part6b"}
       /\ (MainReset \/ MainCreate \/ MainJoin \/ MainPrint)
    \/ part \in {"Part6a", "Part6b"} /\ (MainSemInit \/ MainSemDestroy)
    \/ part = "BonusA" /\ (MainResetPair \/ MainCreate \/ MainJoinPair \/ MainPrintBonusA)
    \/ part = "BonusB" /\ (MainResetPair \/ MainCreate \/ MainJoin \/ MainPrintBonusB)
    \/ part \in {"Part3", "PartC1n"} /\ (MainCall \/ MainAfterCall)
    \/ part = "PartC1" /\ (MainCall \/ MainAfterRu)
    \/ part \in ThreadedBad /\ (MainCreate \/ MainJoin \/ MainPrintBad)
    \/ part = "Part4" /\ (MainCreate \/ MainJoin \/ MainPrintOk)

\* The section that follows p in main(): w6 runs Parts 1, 2, 3, 3b, 4, 5,
\* 6a, 6b; w3 runs Parts A, A2, B, Bonus A, Bonus B, C1 (non-reentrant
\* calls, then reentrant calls), C2; "none" after the last one.
Follows(p) ==
    CASE p = "Part1" -> "Part2"
      [] p = "Part2" -> "Part3"
      [] p = "Part3" -> "Part3b"
      [] p = "Part3b" -> "Part4"
      [] p = "Part4" -> "Part5"
      [] p = "Part5" -> "Part6a"
      [] p = "Part6a" -> "Part6b"
      [] p = "PartA" -> "PartA2"
      [] p = "PartA2" -> "PartB"
      [] p = "PartB" -> "BonusA"
      [] p = "BonusA" -> "BonusB"
      [] p = "BonusB" -> "PartC1n"
      [] p = "PartC1n" -> "PartC1"
      [] p = "PartC1" -> "PartC2"
      [] OTHER -> "none"

\* How main enters section p: where it starts, the string literals it
\* passes to the formatters, and sizeof of the destinations it declares
\* (A_buf, B_buf in w6 Part 4; r1, r2 in w3 Part C1)
SectionEntry(p) ==
    [start |-> CASE UsesSem(p) -> "init"
                 [] p \in {"Part3", "PartC1n", "PartC1"} -> "call"
                 [] p \in ThreadedBad \cup {"Part4"} -> "create"
                 [] p = "Part5" -> "clinic"
                 [] OTHER -> "reset",
     in |-> CASE p \in {"Part3", "PartC1n", "PartC1"} -> <<Hello, World>>
              [] p \in ThreadedBad \cup {"Part4"} -> <<Abcdef, Xyz123>>
              [] OTHER -> <<<<>>, <<>>>>,
     cap |-> CASE p = "Part4" -> 64 [] p = "PartC1" -> 16 [] OTHER -> 0]

\* main leaves a section and enters the next one (in w6 after
\* wait_for_enter has read up to a newline or the end of the input): the
\* threads of the section are gone, their locals and what the section
\* printed belong to the past, the locals of the next section hold its
\* arguments; counter, pair_vals, the lock, buf and the semaphores keep
\* what the section left in them.
MainNextScenario ==
    /\ main_pc = "end"
    /\ Follows(part) # "none"
    /\ part' = Follows(part)
    /\ main_pc' = SectionEntry(Follows(part)).start
    /\ main_i' = 0
    /\ got' = -1
    /\ pc' = [t \in Threads |-> "idle"]
    /\ i' = [t \in Threads |-> 0]
    /\ tmp' = [t \in Threads |-> 0]
    /\ ta' = [t \in Threads |-> 0]
    /\ tb' = [t \in Threads |-> 0]
    /\ ret' = [t \in Threads |-> 0]
    /\ report' = "none"
    /\ waits' = [t \in Threads |-> 0]
    /\ posts' = [t \in Threads |-> 0]
    /\ last_writer' = Filled(0, 0)
    /\ fmt_n' = [c \in Callers |-> 0]
    /\ p_ret' = [c \in Callers |-> "NULL"]
    /\ outp' = [c \in Callers |-> "NULL"]
    /\ shown' = [c \in Callers |-> <<>>]
    /\ arg_in' = [c \in Callers |-> SectionEntry(Follows(part)).in[c]]
    /\ arg_cap' = [c \in Callers |-> SectionEntry(Follows(part)).cap]
    /\ \E g \in Garbage :
          arg_out' = [c \in Callers |-> Filled(SectionEntry(Follows(part)).cap, g)]
    /\ UNCHANGED <<THREADS, ITERATIONS, counter, g_lock, pair_vals, broke, buf,
                   oob, semVars>>

\* w6 Part 5: the bounds clinic reads a label, formats it with snprintf
\* into local arrays and prints it from two threads; it touches none of
\* the shared objects and has no branch that leaves main.
MainBoundsClinic ==
    /\ part = "Part5"
    /\ main_pc = "clinic"
    /\ main_pc' = "end"
    /\ UNCHANGED <<cfgVars, fmtVars, pairVars, main_i, got, counter, g_lock,
                   workerVars, semVars, callVars>>

\* Faulty variant: main returns 1 when the last section printed a value
\* other than the expected one
MainReturnStrict ==
    /\ main_pc = "end"
    /\ Follows(part) = "none"
    /\ main_pc' = IF got \in {-1, THREADS * ITERATIONS} THEN "exit0" ELSE "exit1"
    /\ UNCHANGED <<cfgVars, fmtVars, pairVars, main_i, got, counter, g_lock,
                   workerVars, semVars, callVars>>

\* After the last section: puts(...); return 0;
MainReturn ==
    /\ main_pc = "end"
    /\ Follows(part) = "none"
    /\ main_pc' = "exit0"
    /\ UNCHANGED <<cfgVars, fmtVars, pairVars, main_i, got, counter, g_lock,
                   workerVars, semVars, callVars>>

\* ITERATIONS explored when a whole program is run
MaxProgIter == 1

\* Program start: statics are zero, main is at its first section.  The
\* formatter sections create two threads whatever THREADS is; the programs
\* are run with THREADS = 2.
InitProgram ==
    /\ part \in {"Part1", "PartA"}
    /\ THREADS = Cardinality(Callers)
    /\ ITERATIONS \in 1..MaxProgIter
    /\ main_pc = "reset"
    /\ main_i = 0
    /\ got = -1
    /\ counter = 0
    /\ g_lock = 0
    /\ pc = [t \in Threads |-> "idle"]
    /\ i = [t \in Threads |-> 0]
    /\ tmp = [t \in Threads |-> 0]
    /\ sem_count = [s \in Sems |-> 0]
    /\ sem_m = [s \in Sems |-> 0]
    /\ sem_cv = [s \in Sems |-> {}]
    /\ sem_live = [s \in Sems |-> FALSE]
    /\ sem_initial = [s \in Sems |-> 0]
    /\ waits = [t \in Threads |-> 0]
    /\ posts = [t \in Threads |-> 0]
    /\ InitPair(part)
    /\ InitFmtIdle
MainProgram ==
    \/ MainStep
    \/ MainNextScenario
    \/ MainBoundsClinic
    \/ MainReturn
NextProgram ==
    \/ MainProgram
    \/ \E t \in Threads : WorkerStep(t)
    \/ \E t \in Threads : SpuriousWake(t)
\* Fair scheduling: main takes its next step when it can (the input it
\* waits for between sections arrives or ends), and a worker that can take
\* a step again and again eventually takes one: a thread waiting for a
\* mutex is not passed over for ever.  Nothing forces a spurious wake-up.
FairProgram ==
    /\ InitProgram
    /\ [][NextProgram]_vars
    /\ WF_vars(MainProgram)
    /\ \A t \in Threads : SF_vars(WorkerStep(t))

\* The semaphore on its own: sem_bin after semc_init(&sem_bin, n), used by
\* THREADS clients that call semc_wait / semc_post in any order.
InitClients(most) ==
    /\ part = "Client"
    /\ THREADS \in 1..most
    /\ ITERATIONS \in 1..MaxCalls
    /\ main_pc = "join"
    /\ main_i = 0
    /\ got = -1
    /\ counter = 0
    /\ g_lock = 0
    /\ pc = [t \in Threads |-> IF t <= THREADS THEN "call" ELSE "idle"]
    /\ i = [t \in Threads |-> 0]
    /\ tmp = [t \in Threads |-> 0]
    /\ \E n \in 0..MaxPermits :
          /\ sem_count = [s \in Sems |-> IF s = "sem_bin" THEN n ELSE 0]
          /\ sem_initial = [s \in Sems |-> IF s = "sem_bin" THEN n ELSE 0]
    /\ sem_m = [s \in Sems |-> 0]
    /\ sem_cv = [s \in Sems |-> {}]
    /\ sem_live = [s \in Sems |-> s = "sem_bin"]
    /\ waits = [t \in Threads |-> 0]
    /\ posts = [t \in Threads |-> 0]
    /\ InitPair(part)
    /\ InitFmtIdle
InitClient == InitClients(MaxClients)
NextClient ==
    \/ \E t \in Threads : Client(t)
    \/ \E t \in Threads : SpuriousWake(t)
SpecClient == InitClient /\ [][NextClient]_vars

\* Fair scheduling of the clients: a thread that can take a step of
\* semc_wait or semc_post eventually does.  Nothing forces a spurious
\* wake-up, nor a client to make its next call.
InitFairClient == InitClients(MaxFairClients)
FairClient ==
    /\ InitFairClient
    /\ [][NextClient]_vars
    /\ \A t \in Threads : WF_vars(semc_wait(t) \/ semc_post(t))

\* ---- The counter and pair scenarios under a fair scheduler ----
\* THREADS and ITERATIONS explored under fairness; the three-permit
\* scenario keeps up to ThreePermits + 1 workers and is held at one
\* iteration (a second one takes it to 2.8 million states), the unlocked
\* pair at MaxPairThreads workers.  Each scenario starts from a zero
\* counter and an equal pair: main's reset makes the leftover irrelevant.
MaxFairThreads == 2
MaxFairIter == 1
FairIterThree == 1
InitFairScenarios ==
    /\ InitScenarios \/ InitPart6b
    /\ IF part = "Part6b"
       THEN ITERATIONS <= FairIterThree
       ELSE THREADS <= MaxFairThreads /\ ITERATIONS <= MaxFairIter
    /\ counter = 0
    /\ pair_vals.a = pair_vals.b
NextFairScenarios ==
    \/ NextScenarios
    \/ part = "Part6b" /\ NextPart6b
\* Fairness as in FairProgram
FairScenarios ==
    /\ InitFairScenarios
    /\ [][NextFairScenarios]_vars
    /\ WF_vars(MainStep)
    /\ \A t \in Threads : SF_vars(WorkerStep(t))

\* ---- The two unsynchronised workers of w3, statement by statement ----
\* Faulty variant: both workers yield on the cadences of the counter worker
YieldEveryShared(worker, which) == IF which = 1 THEN 1024 ELSE 2048

\* (i & mask) == 0 holds for every i that is a multiple of mask + 1: the
\* masks are 0x3FF and 0x7FF in increment_without_lock_stressed, 0x1FF and
\* 0x3FF in touch_pair_without_lock (first and second sched_yield).
YieldEvery(worker, which) ==
    CASE worker = "stressed" /\ which = 1 -> 1024
      [] worker = "stressed" /\ which = 2 -> 2048
      [] worker = "pair" /\ which = 1 -> 512
      [] OTHER -> 1024

\* increment_without_lock_stressed, one statement per step
increment_without_lock_stressed(t) ==
    /\ part = "StepsA2"
    /\ \/ /\ pc[t] = "ss_read"
          /\ tmp' = [tmp EXCEPT ![t] = counter]
          /\ pc' = [pc EXCEPT ![t] = IF i[t] % YieldEvery("stressed", 1) = 0
                                     THEN "ss_yield1" ELSE "ss_spin"]
          /\ UNCHANGED <<counter, i>>
       \/ /\ pc[t] = "ss_yield1"
          /\ pc' = [pc EXCEPT ![t] = "ss_spin"]
          /\ UNCHANGED <<counter, i, tmp>>
       \/ /\ pc[t] = "ss_spin"
          /\ pc' = [pc EXCEPT ![t] = "ss_modify"]
          /\ UNCHANGED <<counter, i, tmp>>
       \/ /\ pc[t] = "ss_modify"
          /\ tmp' = [tmp EXCEPT ![t] = tmp[t] + 1]
          /\ pc' = [pc EXCEPT ![t] = IF i[t] % YieldEvery("stressed", 2) = 0
                                     THEN "ss_yield2" ELSE "ss_write"]
          /\ UNCHANGED <<counter, i>>
       \/ /\ pc[t] = "ss_yield2"
          /\ pc' = [pc EXCEPT ![t] = "ss_write"]
          /\ UNCHANGED <<counter, i, tmp>>
       \/ /\ pc[t] = "ss_write"
          /\ counter' = tmp[t]
          /\ i' = [i EXCEPT ![t] = i[t] + 1]
          /\ pc' = [pc EXCEPT ![t] = IF i[t] + 1 < ITERATIONS THEN "ss_read" ELSE "done"]
          /\ UNCHANGED tmp
    /\ UNCHANGED <<mainVars, fmtVars, pairVars, g_lock, semVars, callVars>>

\* touch_pair_without_lock, one statement per step
touch_pair_statements(t) ==
    /\ part = "StepsBonusA"
    /\ \/ /\ pc[t] = "ps_read_a"
          /\ ta' = [ta EXCEPT ![t] = pair_vals.a]
          /\ pc' = [pc EXCEPT ![t] = "ps_read_b"]
          /\ UNCHANGED <<pair_vals, tb, ret, i>>
       \/ /\ pc[t] = "ps_read_b"
          /\ tb' = [tb EXCEPT ![t] = pair_vals.b]
          /\ pc' = [pc EXCEPT ![t] = IF i[t] % YieldEvery("pair", 1) = 0
                                     THEN "ps_yield1" ELSE "ps_modify"]
          /\ UNCHANGED <<pair_vals, ta, ret, i>>
       \/ /\ pc[t] = "ps_yield1"
          /\ pc' = [pc EXCEPT ![t] = "ps_modify"]
          /\ UNCHANGED <<pair_vals, ta, tb, ret, i>>
       \/ /\ pc[t] = "ps_modify"
          /\ ta' = [ta EXCEPT ![t] = ta[t] + 1]
          /\ tb' = [tb EXCEPT ![t] = tb[t] + 1]
          /\ pc' = [pc EXCEPT ![t] = IF i[t] % YieldEvery("pair", 2) = 0
                                     THEN "ps_yield2" ELSE "ps_write_a"]
          /\ UNCHANGED <<pair_vals, ret, i>>
       \/ /\ pc[t] = "ps_yield2"
          /\ pc' = [pc EXCEPT ![t] = "ps_write_a"]
          /\ UNCHANGED <<pair_vals, ta, tb, ret, i>>
       \/ /\ pc[t] = "ps_write_a"
          /\ pair_vals' = [pair_vals EXCEPT !.a = ta[t]]
          /\ pc' = [pc EXCEPT ![t] = "ps_write_b"]
          /\ UNCHANGED <<ta, tb, ret, i>>
       \/ /\ pc[t] = "ps_write_b"
          /\ pair_vals' = [pair_vals EXCEPT !.b = tb[t]]
          /\ pc' = [pc EXCEPT ![t] = "ps_check"]
          /\ UNCHANGED <<ta, tb, ret, i>>
       \/ /\ pc[t] = "ps_check"
          /\ IF pair_vals.a # pair_vals.b
             THEN /\ ret' = [ret EXCEPT ![t] = 1]
                  /\ pc' = [pc EXCEPT ![t] = "done"]
                  /\ UNCHANGED i
             ELSE /\ i' = [i EXCEPT ![t] = i[t] + 1]
                  /\ pc' = [pc EXCEPT ![t] = IF i[t] + 1 < ITERATIONS
                                             THEN "ps_read_a" ELSE "done"]
                  /\ UNCHANGED ret
          /\ UNCHANGED <<pair_vals, ta, tb>>
    /\ UNCHANGED <<mainVars, fmtVars, broke, report, counter, g_lock, tmp,
                   semVars, callVars>>

\* ITERATIONS of the statement-level run: the loop index passes every
\* multiple of a yield cadence up to the largest one
MaxStepIter == 2049

\* One worker of Part A2, or one of Bonus A, just created by main
InitSteps ==
    /\ part \in {"StepsA2", "StepsBonusA"}
    /\ THREADS = 1
    /\ ITERATIONS = MaxStepIter
    /\ main_pc = "join"
    /\ main_i = 0
    /\ got = -1
    /\ counter = 0
    /\ g_lock = 0
    /\ pc = [t \in Threads |-> IF t > 1 THEN "idle"
                               ELSE IF part = "StepsA2" THEN "ss_read" ELSE "ps_read_a"]
    /\ i = [t \in Threads |-> 0]
    /\ tmp = [t \in Threads |-> 0]
    /\ sem_count = [s \in Sems |-> 0]
    /\ sem_m = [s \in Sems |-> 0]
    /\ sem_cv = [s \in Sems |-> {}]
    /\ sem_live = [s \in Sems |-> FALSE]
    /\ sem_initial = [s \in Sems |-> 0]
    /\ waits = [t \in Threads |-> 0]
    /\ posts = [t \in Threads |-> 0]
    /\ InitPair(part)
    /\ InitFmtIdle
NextSteps ==
    \/ \E t \in Threads : increment_without_lock_stressed(t)
    \/ \E t \in Threads : touch_pair_statements(t)
\* The worker is scheduled as long as it has a statement to execute
FairSteps == InitSteps /\ [][NextSteps]_vars /\ WF_vars(NextSteps)

(* ======================= properties of the scenarios =================== *)
RECURSIVE Sum(_, _)
Sum(f, S) == IF S = {} THEN 0
             ELSE LET x == CHOOSE y \in S : TRUE IN f[x] + Sum(f, S \ {x})

\* main() has left the join loop: every worker of the section was joined.
AllJoined == main_pc \in {"print", "destroy", "end"}
Expected == THREADS * ITERATIONS

\* t is between its return from semc_wait and its following semc_post call.
InRegion(t) == pc[t] \in {"sb_load", "sb_store", "st_load", "st_spin", "st_store"}
Region == {t \in Threads : InRegion(t)}

\* t has taken a permit (count--) that it has not yet given back (count++).
HoldsPermit(t) == waits[t] > posts[t]
Holders == {t \in Threads : HoldsPermit(t)}

\* t is inside semc_wait and has not yet passed the test of the count.
Waiting(t) == pc[t] \in {"wait_lock", "wait_test", "cond_wait"}
\* t is blocked in pthread_cond_wait.
Blocked(t) == pc[t] = "cond_wait" /\ t \in sem_cv[SemOf(part)]

\* C1: mutex-guarded counter: once every worker has been joined the counter
\* equals THREADS * ITERATIONS, for every W, K and every interleaving; what
\* main prints is that value.
C1_MutexFinalExact ==
    /\ AllJoined => counter = Expected
    /\ got # -1 => got = Expected
C1_Witness ==
    /\ part = "Part2" /\ main_pc = "end"
    /\ THREADS >= 2 /\ ITERATIONS >= 2
    /\ got = Expected

\* C2: binary-semaphore-guarded counter (sem_bin initialised to 1, each
\* worker doing semc_wait; counter++; semc_post): after all joins the counter
\* is exactly THREADS * ITERATIONS, spurious wake-ups included.
C2_BinarySemFinalExact ==
    AllJoined => (counter = Expected /\ got \in {-1, Expected})
C2_Witness ==
    /\ part = "Part6a" /\ main_pc = "end"
    /\ THREADS >= 2 /\ ITERATIONS >= 2
    /\ got = Expected /\ counter = Expected

\* C3: a semaphore initialised with one permit, used strictly paired, has at
\* most one task between its return from semc_wait and its next semc_post.
C3_BinaryMutualExclusion == Cardinality(Region) <= 1
C3_Witness ==
    /\ sem_initial["sem_bin"] = 1
    /\ \E t, u \in Threads : InRegion(t) /\ Blocked(u)

\* C4: a semaphore initialised with N = 3 permits never has more than N
\* holders, and while N tasks hold permits no task inside semc_wait gets past
\* the test of the count (it cannot return before a semc_post).
C4_ThreePermitsAdmitThree ==
    /\ [](Cardinality(Holders) <= ThreePermits /\ Cardinality(Region) <= ThreePermits)
    /\ [][Cardinality(Holders) = ThreePermits
            => \A t \in Threads : Waiting(t) => Waiting(t)']_vars
\* N simultaneous holders are reached, with a further task blocked.
C4_Witness ==
    /\ Cardinality(Region) = ThreePermits
    /\ \E u \in Threads : Blocked(u)

\* C5: the permit count is never negative, whatever sequence of semc_wait
\* and semc_post calls the tasks make, from any initial count >= 0.
C5_CountNeverNegative == \A s \in Sems : sem_count[s] >= 0
C5_Witness ==
    /\ sem_count["sem_bin"] = 0
    /\ \E t \in Threads : waits[t] > 0
    /\ \E u \in Threads : pc[u] = "cond_wait" /\ u \notin sem_cv["sem_bin"]

\* C6: under strictly paired use the permit count never exceeds the initial
\* count the semaphore was created with.
C6_CountAtMostInitial == \A s \in Sems : sem_count[s] <= sem_initial[s]
C6_Witness ==
    /\ sem_live["sem_bin"]
    /\ sem_count["sem_bin"] = sem_initial["sem_bin"]
    /\ \E t \in Threads : posts[t] >= 1 /\ pc[t] = "wait_lock"

\* The semaphore the stand-alone clients call.
ClientSem == "sem_bin"
InPost(t) == pc[t] \in {"post_inc", "post_signal", "post_unlock"}

\* C8: semc_post raises the count by exactly one, as one atomic step with
\* respect to every other semc_wait / semc_post call (no other task changes
\* the count while a task is inside semc_post); its signal wakes at least
\* one blocked task if there is one; with nobody waiting it only raises the
\* count, and the permit stays until a semc_wait takes it.
C8_PostIncrementsAndWakes ==
    [][/\ \A t \in Threads :
           /\ (pc[t] = "post_inc" /\ pc'[t] = "post_signal")
                 => /\ sem_count'[ClientSem] = sem_count[ClientSem] + 1
                    /\ sem_cv' = sem_cv
           /\ (InPost(t) /\ pc'[t] = pc[t]) => sem_count' = sem_count
           /\ (pc[t] = "post_signal" /\ pc'[t] = "post_unlock")
                 => /\ sem_count' = sem_count
                    /\ IF sem_cv[ClientSem] = {}
                       THEN sem_cv'[ClientSem] = {}
                       ELSE /\ sem_cv'[ClientSem] \subseteq sem_cv[ClientSem]
                            /\ sem_cv'[ClientSem] # sem_cv[ClientSem]
       /\ sem_count'[ClientSem] < sem_count[ClientSem]
             => /\ sem_count'[ClientSem] = sem_count[ClientSem] - 1
                /\ \E t \in Threads : pc[t] = "wait_dec" /\ pc'[t] = "wait_unlock"
      ]_vars
\* A post has just signalled while a task was blocked: that task is awake.
C8_Witness ==
    \E t, u \in Threads :
        /\ pc[t] = "post_unlock"
        /\ pc[u] = "cond_wait" /\ u \notin sem_cv[ClientSem]
        /\ sem_cv[ClientSem] = {}
        /\ sem_count[ClientSem] = 1

\* C9: semc_post is not ownership-checked: a task that holds no permit is
\* let into semc_post like any other, and every post, by whichever task,
\* raises the count by one (count = initial + posts - waits).
C9_PostNotOwnershipChecked ==
    /\ sem_count[ClientSem]
         = sem_initial[ClientSem] + Sum(posts, Threads) - Sum(waits, Threads)
    /\ \A t \in Threads :
          (pc[t] = "post_lock" /\ sem_m[ClientSem] = 0) => ENABLED PostLock(t)
\* On a 1-permit semaphore a task that never waited has posted, and two
\* tasks have returned from semc_wait and still hold their permits.
C9_Witness ==
    /\ sem_initial[ClientSem] = 1
    /\ Cardinality({t \in Threads : HoldsPermit(t) /\ pc[t] = "done"}) = 2
    /\ \E u \in Threads : waits[u] = 0 /\ posts[u] = 1 /\ pc[u] = "done"

\* C10: three-permit-semaphore counter: the counter after all joins never
\* exceeds THREADS * ITERATIONS (and is at least 1); with THREADS >= 4 a run
\* ending strictly below THREADS * ITERATIONS exists (C10_Witness).
C10_ThreePermitsFinalAtMostExpected ==
    AllJoined => (1 <= counter /\ counter <= Expected)
C10_Witness ==
    /\ part = "Part6b" /\ main_pc = "end"
    /\ THREADS >= 4
    /\ sem_initial["sem_three"] = 3
    /\ got < Expected /\ counter < Expected

\* t is the only task inside semc_wait and no other task will call it again.
NoMoreAcquire(u) ==
    \/ pc[u] \in {"idle", "done"}
    \/ pc[u] \in {"post_lock", "post_inc", "post_signal", "post_unlock"}
         /\ i[u] + 1 >= ITERATIONS
SoleWaiter(t) ==
    /\ Waiting(t)
    /\ \A u \in Threads \ {t} : NoMoreAcquire(u)

\* C7: no lost wake-up: under fair scheduling, whenever a permit is there
\* (count > 0, so a semc_post has occurred or the permit was never taken)
\* and some task is waiting in or entering semc_wait, a task eventually
\* returns from semc_wait with a permit; a sole waiter with no other
\* acquirer eventually returns itself.
C7_NoLostWakeup ==
    /\ (sem_count[ClientSem] > 0 /\ \E t \in Threads : Waiting(t))
          ~> (\E t \in Threads : pc[t] = "wait_unlock")
    /\ \A t \in Threads :
          (sem_count[ClientSem] > 0 /\ SoleWaiter(t)) ~> ~Waiting(t)
\* A task is blocked on the condition variable, the count has been raised by
\* a post that has not signalled yet, and nobody else will acquire.
C7_Witness ==
    \E t, u \in Threads :
        /\ Blocked(t) /\ SoleWaiter(t)
        /\ pc[u] = "post_signal"
        /\ sem_count[ClientSem] = 1

\* C11: the three-permit worker body (read, busy-wait, write-back between
\* semc_wait and semc_post), run under a semaphore initialised with 1 permit,
\* never loses an update: after all joins the counter is THREADS * ITERATIONS.
C11_OnePermitThreeBodyExact ==
    /\ AllJoined => counter = Expected
    /\ Cardinality(Region) <= 1
C11_Witness ==
    /\ part = "Part6bOne" /\ main_pc = "end"
    /\ sem_initial["sem_three"] = 1
    /\ THREADS >= 2 /\ ITERATIONS >= 2
    /\ got = Expected

\* C12: without synchronisation (naive and stressed workers) updates can be
\* lost: with at least two workers some interleaving ends with the counter
\* below THREADS * ITERATIONS. The final value never exceeds that product,
\* and a shortfall needs at least two workers.
C12_RaceLosesUpdatesOnlyWithTwo ==
    AllJoined => /\ counter <= Expected
                 /\ (counter < Expected => THREADS >= 2)
C12_Witness ==
    /\ part \in {"Part1", "PartA"}
    /\ main_pc = "end"
    /\ THREADS >= 2
    /\ got < Expected
    /\ got = counter
\* the same outcome seen separately for the naive and the stressed worker
C12_WitnessNaive == C12_Witness /\ part = "PartA"
C12_WitnessStressed == C12_Witness /\ part = "Part1"

\* C13: with the lock held around both increments, the two fields of the pair
\* are equal once every worker has been joined, and main reports YES.
C13_LockedPairEqualAfterJoin ==
    /\ AllJoined => pair_vals.a = pair_vals.b
    /\ report # "NO"
C13_Witness ==
    /\ part = "BonusB" /\ main_pc = "end"
    /\ THREADS >= 2 /\ ITERATIONS >= 2
    /\ pair_vals.a = Expected /\ pair_vals.b = Expected
    /\ report = "YES"

\* A worker of the unlocked pair that has returned 1
Signalled(t) == ret[t] = 1
\* A worker of the unlocked pair that is still executing its loop
RunningPair(t) == pc[t] \notin {"idle", "done", "joined"}

\* C14: without the lock some interleaving of at least two workers lets a
\* worker read a != b after its own write-back and report it. A report is
\* always backed by two values the worker really read as different, and a
\* single worker never reports.
C14_SignalMeansObservedDifference ==
    \A t \in Threads :
        Signalled(t) => /\ ta[t] # tb[t]
                        /\ THREADS >= 2
                        /\ pc[t] \in {"done", "joined"}
C14_Witness ==
    /\ part = "BonusA"
    /\ THREADS >= 2
    /\ \E t \in Threads : Signalled(t) /\ ta[t] # tb[t]

\* C15: in the unlocked pair scenario a worker that sees a != b stops
\* iterating and returns 1; the other workers keep running; main still joins
\* all THREADS workers; and main reports the pair broken exactly when at
\* least one joined worker returned 1.
C15_BrokenReportedIffSignalled ==
    /\ \A t \in Threads :
          Signalled(t) => /\ pc[t] \in {"done", "joined"}
                          /\ i[t] < ITERATIONS
                          /\ \A u \in Threads :
                                RunningPair(u) => ENABLED touch_pair_without_lock(u)
    /\ \A t \in Threads :
          (pc[t] \in {"done", "joined"} /\ ~Signalled(t)) => i[t] = ITERATIONS
    /\ main_pc \in {"join", "print", "end"} =>
          (broke = 1 <=> \E t \in 1..THREADS : pc[t] = "joined" /\ Signalled(t))
    /\ main_pc \in {"print", "end"} => \A t \in 1..THREADS : pc[t] = "joined"
    /\ main_pc = "end" =>
          (report = "YES" <=> \E t \in 1..THREADS : Signalled(t))
C15_Witness ==
    /\ part = "BonusA" /\ main_pc = "end"
    /\ report = "YES"
    /\ \E t, u \in 1..THREADS :
          /\ Signalled(t) /\ i[t] + 1 < ITERATIONS
          /\ ~Signalled(u) /\ i[u] = ITERATIONS
          /\ pc[t] = "joined" /\ pc[u] = "joined"

\* The capacity-truncated length of caller c's input
Kept(c, cap) == IF strlen(arg_in[c]) < cap - 1 THEN strlen(arg_in[c]) ELSE cap - 1
\* mem holds the upper-cased first n characters of str and then a terminator
HoldsUpper(mem, str, n) ==
    /\ \A k \in 0..(n - 1) : mem[k] = toupper(str[k + 1])
    /\ mem[n] = 0
\* the upper-cased form of a string
Upper(str) == [k \in 1..Len(str) |-> toupper(str[k])]

\* C16: two inputs of any lengths formatted concurrently by the reentrant
\* formatter into two distinct destinations of capacity >= 1: once a call has
\* returned, its destination holds the upper-cased first min(len, cap - 1)
\* characters of its own input and then the terminator, at every later
\* moment; no write falls outside a destination.
C16_ReentrantIsolation ==
    /\ ~oob
    /\ \A c \in Callers :
          (part = "Part4" /\ pc[c] \in {"done", "joined"}) =>
              HoldsUpper(arg_out[c], arg_in[c], Kept(c, arg_cap[c]))
    /\ (part = "Part4" /\ main_pc = "end") =>
          \A c \in Callers : shown[c] = Upper(SubSeq(arg_in[c], 1, Kept(c, arg_cap[c])))
C16_Witness ==
    /\ part = "Part4" /\ main_pc = "end"
    /\ arg_in[1] = Abcdef /\ arg_in[2] = <<>>
    /\ arg_cap[1] = MaxCap /\ arg_cap[2] = 1
    /\ shown[1] = SubSeq(Upper(Abcdef), 1, MaxCap - 1)
    /\ shown[2] = <<>>
    /\ arg_out[1][MaxCap - 1] = 0

\* The upper-cased form of caller c's input as far as buf can hold it
UpperKept(c) == Upper(SubSeq(arg_in[c], 1, Kept(c, BufSize)))

\* C17 as stated: for any two sequential calls s1 then s2, both results are
\* the shared buffer, which after the second call equals the upper-cased s2
\* exactly and not the upper-cased s1.
C17_AsStated ==
    (part = "Part3" /\ main_pc = "end") =>
        /\ outp[1] = "buf" /\ outp[2] = "buf"
        /\ CStr(BufMem) = Upper(arg_in[2])
        /\ CStr(BufMem) # Upper(arg_in[1])
\* C17 (amended): for any two sequential calls s1 then s2, both results are
\* the shared buffer; after the second call the string in it is the
\* upper-cased first min(len(s2), 63) characters of s2, so the first result
\* no longer reads as the upper-cased s1 that was printed for it, unless s1
\* has that same upper-cased form.
C17_SequentialAliasing ==
    (part = "Part3" /\ main_pc = "end") =>
        /\ outp[1] = "buf" /\ outp[2] = "buf"
        /\ CStr(BufMem) = UpperKept(2)
        /\ shown[2] = UpperKept(2)
        /\ shown[1] = UpperKept(1)
        /\ (CStr(BufMem) # Upper(arg_in[1])) <=> (Upper(arg_in[1]) # UpperKept(2))
C17_Witness ==
    /\ part = "Part3" /\ main_pc = "end"
    /\ arg_in[1] = Hello /\ arg_in[2] = World
    /\ outp[1] = "buf" /\ outp[2] = "buf"
    /\ shown[1] = Upper(Hello)
    /\ CStr(BufMem) = Upper(World)

\* C19: a single call of the non-reentrant formatter with an input of any
\* length L (0 and >= 64 included) leaves in the 64-byte buffer the
\* upper-cased first min(L, 63) characters and a terminator at index
\* min(L, 63), writes no index >= 64, and returns the shared buffer.
C19_SingleCallWithinBounds ==
    /\ ~oob
    /\ DOMAIN buf \subseteq 0..(BufSize - 1)
    /\ \A c \in Callers :
          (part = "Part3" /\ pc[c] = "returned") =>
              /\ HoldsUpper(BufMem, arg_in[c], Kept(c, BufSize))
              /\ p_ret[c] = "buf"
C19_Witness ==
    /\ part = "Part3"
    /\ pc[1] = "returned"
    /\ strlen(arg_in[1]) >= BufSize
    /\ p_ret[1] = "buf"
    /\ BufAt(BufSize - 1) = 0
    /\ BufAt(BufSize - 2) = toupper(arg_in[1][BufSize - 1])
\* the same for the empty input and for a second call into a used buffer
C19_WitnessEmpty ==
    /\ part = "Part3" /\ pc[1] = "returned" /\ arg_in[1] = <<>> /\ BufAt(0) = 0
C19_WitnessReused ==
    /\ part = "Part3" /\ pc[2] = "returned"
    /\ strlen(arg_in[1]) >= BufSize /\ arg_in[2] = Hello
    /\ BufAt(strlen(Hello)) = 0 /\ BufAt(strlen(Hello) + 1) # 0

\* The byte caller c writes at index k of buf: the upper-cased character, or
\* the terminator at index n
ByteWritten(c, k) ==
    IF k < Kept(c, BufSize) THEN toupper(arg_in[c][k + 1]) ELSE 0

\* C18: two tasks calling the non-reentrant formatter concurrently both end
\* up with a reference to the same storage and main prints the same content
\* for both after the joins; every byte written holds what the last writer of
\* that position wrote. Some interleaving of two different inputs leaves a
\* hybrid that is the upper-cased form of neither.
C18_ConcurrentLastWriterWins ==
    part = "Part3b" =>
        /\ \A c \in Callers : pc[c] \in {"done", "joined"} => outp[c] = "buf"
        /\ \A k \in DOMAIN last_writer :
              /\ last_writer[k] \in Callers
              /\ k <= Kept(last_writer[k], BufSize)
              /\ BufAt(k) = ByteWritten(last_writer[k], k)
        /\ main_pc = "end" => /\ shown[1] = shown[2]
                              /\ shown[1] = CStr(BufMem)
C18_Witness ==
    /\ part = "Part3b" /\ main_pc = "end"
    /\ arg_in[1] = Abcdef /\ arg_in[2] = Xyz123
    /\ outp[1] = "buf" /\ outp[2] = "buf"
    /\ shown[1] = shown[2]
    /\ shown[1] # Upper(Abcdef)
    /\ shown[1] # Upper(Xyz123)
    /\ \E k \in DOMAIN last_writer : last_writer[k] = 1
    /\ \E k \in DOMAIN last_writer : last_writer[k] = 2

\* main has read the counter or the pair for its report
HasReported == got # -1 \/ report # "none"

\* C20: in every counter and pair scenario main reads the shared counter (or
\* pair) for its report only after each of the THREADS workers has terminated
\* and been joined, so no worker step, hence no worker write, can follow the
\* read: the counter still has the value that was printed.
C20_ReadOnlyAfterAllJoined ==
    /\ (main_pc = "print" \/ HasReported) =>
          \A t \in Threads : pc[t] = IF t <= THREADS THEN "joined" ELSE "idle"
    /\ got # -1 => got = counter
    /\ report # "none" => (report = "YES" <=>
                              IF part = "BonusA" THEN broke = 1
                              ELSE pair_vals.a = pair_vals.b)
C20_Witness ==
    /\ part = "Part1"
    /\ main_pc = "end"
    /\ THREADS >= 2
    /\ got = counter /\ got < Expected
    /\ \A t \in 1..THREADS : pc[t] = "joined"
\* the same moment in the pair scenario
C20_WitnessPair ==
    /\ part = "BonusA" /\ main_pc = "end" /\ report = "YES"
    /\ \A t \in 1..THREADS : pc[t] = "joined"

\* The scenarios that work on the pair
PairParts == {"BonusA", "BonusB"}
\* main is about to create the first worker of the scenario
FirstSpawn == main_pc = "create" /\ main_i = 0

\* C21: shared state is reset before each scenario: when the first worker of
\* a counter scenario is spawned the counter is 0, and when the first worker
\* of a pair scenario is spawned a = b = 0, whatever was left behind.
C21_ResetBeforeFirstSpawn ==
    FirstSpawn => IF part \in PairParts
                  THEN pair_vals = [a |-> 0, b |-> 0]
                  ELSE counter = 0
C21_Witness ==
    /\ part = "BonusB"
    /\ FirstSpawn
    /\ pair_vals = [a |-> 0, b |-> 0]
    /\ \A t \in Threads : pc[t] = "idle"
\* the same moment in a counter scenario
C21_WitnessCounter ==
    /\ part = "Part2" /\ FirstSpawn /\ counter = 0
    /\ \A t \in Threads : pc[t] = "idle"

\* C26: in the locked pair scenario, from main's reset of the pair on, a = b
\* whenever no worker holds the lock; a # b only while the lock holder has
\* stored a and not yet b, and then a = b + 1, every other worker is outside
\* the critical section and main is not at its read of the pair.
OutsidePair(t) == pc[t] \in {"idle", "pl_lock", "done", "joined"}
C26_LockedPairInvariant ==
    (part = "BonusB" /\ main_pc # "reset") =>
        /\ g_lock = 0 => pair_vals.a = pair_vals.b
        /\ pair_vals.a # pair_vals.b =>
              /\ g_lock \in Threads
              /\ pc[g_lock] \in {"pl_b_load", "pl_b_store"}
              /\ pair_vals.a = pair_vals.b + 1
              /\ \A u \in Threads \ {g_lock} : OutsidePair(u)
              /\ main_pc \in {"create", "join"}
C26_Witness ==
    /\ part = "BonusB"
    /\ pair_vals.a = pair_vals.b + 1
    /\ pair_vals.b > 0
    /\ g_lock \in Threads
    /\ pc[g_lock] = "pl_b_store"
    /\ \E u \in Threads \ {g_lock} : pc[u] = "pl_lock"

\* C27: semc_wait tests the count again after every wake-up and decrements
\* in the critical section of the test: a thread is at the test, at the
\* decrement or in semc_post's body only while it holds the semaphore's
\* mutex; it is at the decrement only with count > 0; a return from
\* pthread_cond_wait leads to the test, never to the decrement; a test that
\* finds count = 0 leads back to waiting; and, once semc_init has set it
\* (which main does before any worker exists), the count changes only in a
\* step of the thread that holds the mutex.
InSemSection(t) ==
    pc[t] \in {"wait_test", "wait_dec", "wait_unlock",
               "post_inc", "post_signal", "post_unlock"}
WokenWaiter(t) == pc[t] = "cond_wait" /\ t \notin sem_cv[SemOf(part)]
C27_StateOk ==
    LET s == SemOf(part) IN
    \A t \in Threads :
        /\ InSemSection(t) => sem_m[s] = t
        /\ pc[t] = "wait_dec" => sem_count[s] > 0
C27_StepOk ==
    LET s == SemOf(part) IN
    /\ \A t \in Threads :
          /\ (pc[t] = "cond_wait" /\ pc'[t] # "cond_wait") =>
                (WokenWaiter(t) /\ pc'[t] = "wait_test" /\ sem_m'[s] = t)
          /\ (pc[t] = "wait_test" /\ sem_count[s] = 0 /\ pc'[t] # "wait_test") =>
                (pc'[t] = "cond_wait" /\ t \in sem_cv'[s] /\ sem_count' = sem_count)
          /\ pc'[t] = "wait_dec" => pc[t] \in {"wait_test", "wait_dec"}
    /\ (sem_count'[s] # sem_count[s] /\ main_pc # "init") =>
          /\ sem_m[s] \in Threads
          /\ sem_m'[s] = sem_m[s]
          /\ pc[sem_m[s]] \in {"wait_dec", "post_inc"}
          /\ pc'[sem_m[s]] # pc[sem_m[s]]
    /\ (sem_count'[s] < sem_count[s] /\ main_pc # "init") =>
          (pc[sem_m[s]] = "wait_dec" /\ sem_count'[s] = sem_count[s] - 1)
C27_RecheckAfterWake == [](C27_StateOk) /\ [][C27_StepOk]_vars
\* a waiter has been woken by a post whose permit another task has taken
\* since: it re-acquires the mutex and finds the count at 0
C27_Witness ==
    LET s == SemOf(part) IN
    /\ part = "Client"
    /\ \E t \in Threads : WokenWaiter(t) /\ sem_m[s] = 0
    /\ sem_count[s] = 0
    /\ Sum(posts, Threads) >= 1
    /\ Sum(waits, Threads) = sem_initial[s] + Sum(posts, Threads)
\* the woken waiter is back at the test and the count is 0
C27_WitnessRetest ==
    LET s == SemOf(part) IN
    /\ part = "Client"
    /\ \E t \in Threads : pc[t] = "wait_test" /\ sem_initial[s] = 0
    /\ sem_count[s] = 0
    /\ Sum(posts, Threads) >= 1
    /\ Sum(waits, Threads) = Sum(posts, Threads)

\* C28: in the mutex and the binary-semaphore counter scenarios, while a
\* worker is between its read of the counter and its write-back the counter
\* still holds what it read and no other worker is at a read or a write of
\* it; every write after main's reset raises the counter by exactly 1; the
\* counter equals the number of increments completed so far, as if each
\* increment were one atomic step, and stands at THREADS * ITERATIONS when
\* all workers are joined.
GuardedParts == {"Part2", "Part6a"}
HasRead(t) == pc[t] \in {"lk_store", "sb_store"}
AtCounter(t) == pc[t] \in {"lk_load", "lk_store", "sb_load", "sb_store"}
\* increments worker t has completed: i counts the finished iterations, and
\* the current one has written back already
Written(t) ==
    i[t] + (IF pc[t] \in {"lk_unlock", "post_lock", "post_inc", "post_signal",
                          "post_unlock"}
            THEN 1 ELSE 0)
Increments == [t \in Threads |-> Written(t)]
C28_StateOk ==
    (part \in GuardedParts /\ main_pc \notin {"init", "reset"}) =>
        /\ \A t \in Threads :
              HasRead(t) => /\ tmp[t] = counter
                            /\ \A u \in Threads \ {t} : ~AtCounter(u)
        /\ counter = Sum(Increments, Threads)
        /\ counter \in 0..Expected
        /\ AllJoined => counter = Expected
C28_StepOk ==
    (part \in GuardedParts /\ counter' # counter) =>
        \/ main_pc = "reset" /\ counter' = 0
        \/ /\ counter' = counter + 1
           /\ \E t \in Threads : HasRead(t) /\ ~HasRead(t)'
C28_GuardedIsAtomic == [](C28_StateOk) /\ [][C28_StepOk]_vars
\* one worker is inside the window while another is kept out, after some
\* increments have been made
C28_Witness ==
    /\ part = "Part6a"
    /\ counter > 0
    /\ \E t \in Threads : HasRead(t) /\ \E u \in Threads \ {t} : pc[u] = "cond_wait"
C28_WitnessMutex ==
    /\ part = "Part2"
    /\ counter > 0
    /\ \E t \in Threads : HasRead(t) /\ \E u \in Threads \ {t} : pc[u] = "lk_lock"

\* C30: in a semaphore scenario the semaphore is initialised, with count 1
\* (binary) or 3 (three-permit), before the first worker is created, and is
\* live for as long as a worker exists; when main is about to destroy it
\* every worker has been joined, nobody is blocked on its condition
\* variable or owns its mutex, nobody holds a permit, and the count is back
\* at its initial value; it is destroyed once the scenario has ended.
Spawned(t) == pc[t] \notin {"idle", "joined"}
C30_SemaphoreLifecycle ==
    LET s == SemOf(part) IN
    part \in {"Part6a", "Part6b"} =>
        /\ FirstSpawn => /\ sem_live[s]
                         /\ sem_count[s] = InitialOf(s)
                         /\ sem_initial[s] = InitialOf(s)
        /\ (\E t \in Threads : Spawned(t)) => sem_live[s]
        /\ main_pc = "destroy" =>
              /\ sem_live[s]
              /\ \A t \in Threads : pc[t] = IF t <= THREADS THEN "joined" ELSE "idle"
              /\ \A t \in Threads : ~Waiting(t)
              /\ sem_cv[s] = {}
              /\ sem_m[s] = 0
              /\ Holders = {}
              /\ sem_count[s] = InitialOf(s)
        /\ ~sem_live[s] => main_pc \in {"init", "end"}
        /\ main_pc = "end" => ~sem_live[s]
\* main is about to destroy the semaphore after a run in which permits
\* were taken and given back and a worker had to block
C30_Witness ==
    /\ part = "Part6a"
    /\ main_pc = "destroy"
    /\ THREADS >= 2
    /\ Sum(waits, Threads) = Expected
    /\ Sum(posts, Threads) = Expected
    /\ sem_count["sem_bin"] = BinaryPermits
C30_WitnessDestroyed ==
    /\ part = "Part6a"
    /\ main_pc = "end"
    /\ ~sem_live["sem_bin"]
    /\ got = Expected

\* C23 as stated: once a counter scenario has printed its line, the number
\* shown is the final counter, and the remark on the line is "pass" exactly
\* when that number equals THREADS * ITERATIONS and "fail" exactly when it
\* differs.
CounterParts == {"Part1", "PartA", "Part2", "Part6a", "Part6b"}
C23_AsStated ==
    (part \in CounterParts /\ got # -1) =>
        /\ got = counter
        /\ Indicator(part) = "pass" <=> got = Expected
        /\ Indicator(part) = "fail" <=> got # Expected
\* What the printed line does satisfy: the number is the final counter, and
\* a "pass" remark is only ever printed next to the expected value.
C23_PrintedLine ==
    (part \in CounterParts /\ got # -1) =>
        /\ got = counter
        /\ Indicator(part) = "pass" => got = Expected
\* the stressed unsynchronised scenario ends exact and prints its remark
C23_Witness ==
    /\ part = "Part1"
    /\ THREADS >= 2
    /\ main_pc = "end"
    /\ got = Expected
    /\ Indicator(part) = "fail"

\* C24 as stated: a reentrant formatter called with capacity 0 returns at
\* once: it stores nothing, neither in the destination nor anywhere else,
\* and the process is not terminated.
ZeroCapCall(c) == arg_cap[c] = 0 /\ pc[c] # "idle"
C24_AsStated ==
    \A c \in Callers :
        ZeroCapCall(c) =>
            /\ pc[c] \in {"re_strlen", "ru_strlen", "done", "joined"}
            /\ arg_out[c] = Filled(0, 0)
            /\ ~oob
            /\ \A t \in Threads : pc[t] # "killed"
\* upper_reentrant (w6) does meet it
C24_GuardedFormatter == part = "Part4" => C24_AsStated
\* reentrant_upper("abcdef", r, 0): the length has wrapped, the loop has
\* stored outside the destination and the process has been killed
C24_Witness ==
    /\ part = "PartC1"
    /\ ZeroCapCall(1)
    /\ fmt_n[1] = SizeRange - 1
    /\ oob
    /\ pc[1] = "killed"

\* C22: whatever a section produced, main goes on: it moves from a section
\* only when that section has run to its end, and then to the section that
\* follows it in the program; under fair scheduling it gets past the last
\* section of the program, in w6 and in w3, returns 0 and stays there; main
\* never leaves with another status and no thread is killed.
SectionDone(p) == part = p /\ main_pc = "end"
C22_InOrder ==
    part' # part => (SectionDone(part) /\ part' = Follows(part))
C22_NoAbort ==
    /\ main_pc # "exit1"
    /\ \A t \in Threads : pc[t] # "killed"
C22_MismatchNeverAborts ==
    /\ [][C22_InOrder]_vars
    /\ <>[](main_pc = "exit0" /\ Follows(part) = "none")
    /\ [](C22_NoAbort)
\* main is entering Part 2 (Part B) with the counter still short of the
\* expected value that the unsynchronised section before it left behind
C22_Witness ==
    /\ part \in {"Part2", "PartB"}
    /\ main_pc = "reset"
    /\ counter < Expected
\* w3 is entering Bonus B after Bonus A saw the pair invariant broken
C22_WitnessPairBroken ==
    /\ part = "BonusB"
    /\ main_pc = "reset"
    /\ pair_vals.a # pair_vals.b
    /\ broke = 1
\* w6 has returned 0 although its last section lost an update
C22_WitnessExit ==
    /\ part = "Part6b"
    /\ main_pc = "exit0"
    /\ counter < Expected

\* C25: every scenario terminates.  In the unsynchronised, mutex,
\* binary-semaphore, three-permit and both pair scenarios, under fair
\* scheduling every worker finishes and main's joins all return; and in
\* no reachable state are all unfinished workers unable to take a step.
Unfinished == {t \in Threads : pc[t] \notin {"idle", "done", "joined"}}
C25_SomeoneCanRun ==
    Unfinished # {} => \E t \in Unfinished : ENABLED WorkerStep(t)
C25_AllJoined ==
    /\ AllJoined
    /\ \A t \in Threads : pc[t] = IF t <= THREADS THEN "joined" ELSE "idle"
C25_EveryScenarioTerminates == [](C25_SomeoneCanRun) /\ <>[](C25_AllJoined)
\* three-permit scenario with four workers: three are inside, the fourth
\* is blocked on the condition variable
C25_Witness ==
    /\ part = "Part6b"
    /\ Cardinality(Region) = ThreePermits
    /\ \E t \in Threads : Blocked(t)
\* every unfinished worker but one is blocked at the mutex
C25_WitnessMutex ==
    /\ part = "BonusB"
    /\ Cardinality(Unfinished) = MaxFairThreads
    /\ Cardinality({t \in Unfinished : ENABLED WorkerStep(t)}) = 1

\* The kind of statement a worker is at
Kind(l) ==
    CASE l \in {"ss_read", "ps_read_a", "ps_read_b"} -> "read"
      [] l \in {"ss_yield1", "ps_yield1"} -> "yield1"
      [] l = "ss_spin" -> "spin"
      [] l \in {"ss_modify", "ps_modify"} -> "modify"
      [] l \in {"ss_yield2", "ps_yield2"} -> "yield2"
      [] l \in {"ss_write", "ps_write_a", "ps_write_b"} -> "write"
      [] l = "ps_check" -> "check"
      [] OTHER -> "end"
\* The order of an iteration as the claim gives it: read, conditional
\* yield, busy-wait, modify, second conditional yield, write
SharedOrder(k) ==
    CASE k = "read" -> {"read", "yield1", "spin"}
      [] k = "yield1" -> {"spin"}
      [] k = "spin" -> {"modify"}
      [] k = "modify" -> {"yield2", "write"}
      [] k = "yield2" -> {"write"}
      [] k = "write" -> {"write", "read", "end"}
      [] OTHER -> {"end"}
\* The order of an iteration of the pair worker: no busy-wait, and a
\* comparison of the pair after the write
PairOrder(k) ==
    CASE k = "read" -> {"read", "yield1", "modify"}
      [] k = "yield1" -> {"modify"}
      [] k = "modify" -> {"yield2", "write"}
      [] k = "yield2" -> {"write"}
      [] k = "write" -> {"write", "check"}
      [] k = "check" -> {"read", "end"}
      [] OTHER -> {"end"}
Worker1Moves == pc'[1] # pc[1]

\* C29 as stated: each iteration of the pair worker and of the stressed
\* counter worker goes through the same kinds of statement in the same
\* order: read, conditional yield, busy-wait, modify, second conditional
\* yield, write.
C29_AsStated ==
    [][Worker1Moves => Kind(pc'[1]) \in SharedOrder(Kind(pc[1]))]_vars

\* C29 amended: the stressed counter worker follows that order, yielding
\* first when i is a multiple of 1024 and second when it is a multiple of
\* 2048; the pair worker reads, yields when i is a multiple of 512,
\* modifies without any busy-wait, yields when i is a multiple of 1024,
\* writes and then compares the pair; in both the second yield comes only
\* in iterations that had the first.
C29_Orders ==
    Worker1Moves =>
        Kind(pc'[1]) \in (IF part = "StepsA2" THEN SharedOrder(Kind(pc[1]))
                          ELSE PairOrder(Kind(pc[1])))
C29_Cadences ==
    /\ (pc[1] = "ss_read" /\ Worker1Moves) => (pc'[1] = "ss_yield1" <=> i[1] % 1024 = 0)
    /\ (pc[1] = "ss_modify" /\ Worker1Moves) => (pc'[1] = "ss_yield2" <=> i[1] % 2048 = 0)
    /\ (pc[1] = "ps_read_b" /\ Worker1Moves) => (pc'[1] = "ps_yield1" <=> i[1] % 512 = 0)
    /\ (pc[1] = "ps_modify" /\ Worker1Moves) => (pc'[1] = "ps_yield2" <=> i[1] % 1024 = 0)
C29_StepSequences == [][C29_Orders /\ C29_Cadences]_vars
\* the pair worker is at its modify step in an iteration in which it has
\* yielded and the stressed worker would not have
C29_Witness ==
    /\ part = "StepsBonusA"
    /\ pc[1] = "ps_modify"
    /\ i[1] = 512
C29_WitnessStressed ==
    /\ part = "StepsA2"
    /\ pc[1] = "ss_yield2"
    /\ i[1] = 2048

\* ---- What a worker's step leaves alone ----
\* A step in which main does not move is a step of a worker.
MainStays == main_pc' = main_pc /\ main_i' = main_i /\ part' = part
\* The sections whose workers increment the counter, and the semaphore each
\* of them is written to use (lines 147-149 and 157-162 of w6)
CounterSections == {"Part1", "PartA", "PartA2", "Part2", "PartB", "Part6a", "Part6b"}
OwnSem(p) == CASE p = "Part6a" -> {"sem_bin"} [] p = "Part6b" -> {"sem_three"} [] OTHER -> {}
SemState(s) == <<sem_count[s], sem_m[s], sem_cv[s], sem_live[s], sem_initial[s]>>
\* The formatters' memory: the static buffer and the callers' destinations
FmtMem == <<buf, oob, arg_out>>
\* The yield / busy-wait steps of the workers
AmplifyLabels == {"nl_window", "st_spin", "pu_window",
                  "ss_yield1", "ss_spin", "ss_yield2", "ps_yield1", "ps_yield2"}
Amplifies == \E t \in Threads : pc[t] \in AmplifyLabels /\ pc'[t] # pc[t]

\* C31: each worker changes only its declared shared entity.  A step of a
\* counter worker leaves the pair and the formatters' memory unchanged, and
\* every semaphore other than its own (the mutex only in the mutex-guarded
\* sections); a step of a pair worker leaves the counter, the formatters'
\* memory and the semaphores unchanged; a yield / busy-wait step changes no
\* shared object at all.
C31_StepOk ==
    MainStays =>
      /\ part \in CounterSections =>
            /\ pair_vals' = pair_vals
            /\ FmtMem' = FmtMem
            /\ \A s \in Sems \ OwnSem(part) : SemState(s)' = SemState(s)
            /\ \A s \in Sems : sem_live'[s] = sem_live[s] /\ sem_initial'[s] = sem_initial[s]
            /\ part \notin {"Part2", "PartB"} => g_lock' = g_lock
            /\ counter' \in {counter} \cup {tmp[t] : t \in Threads}
                                      \cup {tmp[t] + 1 : t \in Threads}
      /\ part \in {"BonusA", "BonusB"} =>
            /\ counter' = counter
            /\ FmtMem' = FmtMem
            /\ \A s \in Sems : SemState(s)' = SemState(s)
            /\ part = "BonusA" => g_lock' = g_lock
      /\ Amplifies =>
            /\ counter' = counter
            /\ pair_vals' = pair_vals
            /\ FmtMem' = FmtMem
            /\ g_lock' = g_lock
            /\ \A s \in Sems : SemState(s)' = SemState(s)
C31_WorkersKeepToTheirEntity == [][C31_StepOk]_vars
\* A worker of the three-permit section has incremented the counter and
\* given its permit back, another one is past its busy-wait; sem_bin is as
\* Part 6a left it and the static buffer as Part 3b left it.
C31_Witness ==
    /\ part = "Part6b"
    /\ \E t, u \in Threads : posts[t] >= 1 /\ pc[u] = "st_store"
    /\ counter >= 1
    /\ sem_count["sem_bin"] = BinaryPermits /\ ~sem_live["sem_bin"]
    /\ DOMAIN buf # {}
\* A pair worker has raised both fields; the counter is as Part B left it.
C31_WitnessPair ==
    /\ part = "BonusA"
    /\ \E t \in Threads : pc[t] = "pu_check"
    /\ pair_vals.a >= 1
    /\ counter = Expected

\* ---- The reentrant formatter's footprint ----
\* Every call is made with a capacity of at least 1
CapsPositive == \A c \in Callers : arg_cap[c] >= 1
Returned(c) == pc[c] \in {"done", "joined"}
InFormatterLoop(c) == pc[c] \in {"re_loop", "ru_loop"}

\* C32: the reentrant formatter (upper_reentrant of w6 in two threads,
\* reentrant_upper of w3 in two calls one after the other) touches nothing
\* but its destination.  With every capacity >= 1: a destination byte
\* changes only while its own call is in the copy loop and only at an index
\* in 0..min(len, cap - 1); the destinations keep their size; the static
\* buffer, the inputs, the capacities, the counter, the pair, the mutex and
\* the semaphores never change and no store falls outside a buffer; two
\* calls that were given the same input, capacity and destination content
\* leave the same destination content.
C32_StateOk ==
    CapsPositive =>
        \A c, d \in Callers :
            (Returned(c) /\ Returned(d) /\ arg_in[c] = arg_in[d] /\ arg_cap[c] = arg_cap[d])
                => arg_out[c] = arg_out[d]
C32_StepOk ==
    CapsPositive =>
        /\ <<buf, last_writer, arg_in, arg_cap>>' = <<buf, last_writer, arg_in, arg_cap>>
        /\ <<counter, pair_vals, g_lock>>' = <<counter, pair_vals, g_lock>>
        /\ semVars' = semVars
        /\ ~oob'
        /\ \A c \in Callers :
              /\ DOMAIN arg_out'[c] = DOMAIN arg_out[c]
              /\ \A k \in DOMAIN arg_out[c] :
                    arg_out'[c][k] # arg_out[c][k]
                        => (InFormatterLoop(c) /\ k <= Kept(c, arg_cap[c]))
C32_ReentrantFootprint == [](C32_StateOk) /\ [][C32_StepOk]_vars
\* Two calls of reentrant_upper with the same one-character input and
\* capacity 3 have returned: terminator at index 1, the byte after it as
\* it was before the call, both destinations alike.
C32_Witness ==
    /\ part = "PartC1" /\ main_pc = "end"
    /\ arg_in[1] = Pattern(1) /\ arg_in[2] = Pattern(1)
    /\ arg_cap[1] = MaxCap /\ arg_cap[2] = MaxCap
    /\ arg_out[1][0] = toupper(Pattern(1)[1]) /\ arg_out[1][1] = 0
    /\ arg_out[1][MaxCap - 1] = 35
    /\ arg_out[2] = arg_out[1]
\* The same for upper_reentrant in two threads, with a truncated input
C32_WitnessThreads ==
    /\ part = "Part4" /\ main_pc = "end"
    /\ arg_in[1] = Abcdef /\ arg_in[2] = Abcdef
    /\ arg_cap[1] = 2 /\ arg_cap[2] = 2
    /\ arg_out[1][1] = 0 /\ arg_out[2] = arg_out[1]

\* ---- Permit conservation ----
\* t has returned from semc_wait and has not yet completed its semc_post
BetweenWaitAndPostEnd(t) ==
    pc[t] \in {"sb_load", "sb_store", "st_load", "st_spin", "st_store",
               "post_lock", "post_inc", "post_signal", "post_unlock"}
\* no task is inside the semaphore's own critical section (between the lock
\* and the unlock of s->m)
SemQuiet(s) == sem_m[s] = 0

\* C33: strictly paired use (semc_wait; body; semc_post): whenever no task
\* holds the semaphore's internal mutex, the count plus the number of tasks
\* that have returned from semc_wait and not completed their semc_post
\* equals the count the semaphore was initialised with.
C33_PermitConservation ==
    \A s \in Sems :
        (s = SemOf(part) /\ sem_live[s] /\ SemQuiet(s)) =>
            sem_count[s] + Cardinality({t \in Threads : BetweenWaitAndPostEnd(t)})
                = sem_initial[s]
\* All three permits are out (two workers in the body, one about to post),
\* a fourth worker is blocked, nobody is inside the semaphore.
C33_Witness ==
    /\ part = "Part6b" /\ sem_initial["sem_three"] = ThreePermits
    /\ SemQuiet("sem_three")
    /\ sem_count["sem_three"] = 0
    /\ Cardinality({t \in Threads : InRegion(t)}) = 2
    /\ \E t \in Threads : pc[t] = "post_lock"
    /\ \E u \in Threads : Blocked(u)
\* Inside the critical section the sum is off by one: the decrement is
\* done, the return is not.
C33_WitnessInside ==
    /\ part = "Part6b"
    /\ \E t \in Threads : pc[t] = "wait_unlock"
    /\ sem_count["sem_three"] + Cardinality({t \in Threads : BetweenWaitAndPostEnd(t)})
          = ThreePermits - 1

\* ---- Returns from semc_wait against posts ----
\* How many calls of semc_wait by t have returned: every decrement it made,
\* less the one whose unlock is still to come
WaitsReturned(t) == waits[t] - (IF pc[t] = "wait_unlock" THEN 1 ELSE 0)
ReturnedWaits == [t \in Threads |-> WaitsReturned(t)]
PastTheTest(t) == pc[t] \in {"wait_dec", "wait_unlock"}

\* C34: a semaphore initialised with N >= 0, called by any tasks in any
\* order: the calls of semc_wait that have returned never outnumber N plus
\* the calls of semc_post that have incremented the count; with N = 0, as
\* long as no post has incremented the count no call of semc_wait has got
\* past the test of the count, and a caller that tests it blocks.
C34_StateOk ==
    /\ Sum(ReturnedWaits, Threads) <= sem_initial[ClientSem] + Sum(posts, Threads)
    /\ Sum(waits, Threads) <= sem_initial[ClientSem] + Sum(posts, Threads)
    /\ (sem_initial[ClientSem] = 0 /\ Sum(posts, Threads) = 0) =>
          \A t \in Threads : waits[t] = 0 /\ ~PastTheTest(t)
C34_StepOk ==
    \A t \in Threads :
        (sem_initial[ClientSem] = 0 /\ Sum(posts, Threads) = 0
           /\ pc[t] = "wait_test" /\ pc'[t] # pc[t])
            => (pc'[t] = "cond_wait" /\ t \in sem_cv'[ClientSem])
C34_WaitsBoundedByPosts == [](C34_StateOk) /\ [][C34_StepOk]_vars
\* N = 0: one post has been made, one semc_wait has returned on it, and
\* another caller is still blocked.
C34_Witness ==
    /\ sem_initial[ClientSem] = 0
    /\ Sum(posts, Threads) = 1
    /\ Sum(ReturnedWaits, Threads) = 1
    /\ \E t \in Threads : pc[t] = "done" /\ waits[t] = 1
    /\ \E u \in Threads : Blocked(u)
\* N = 0 and no post yet: a caller has tested the count and is blocked
C34_WitnessBlocked ==
    /\ sem_initial[ClientSem] = 0
    /\ Sum(posts, Threads) = 0
    /\ \E t \in Threads : Blocked(t)

\* ---- Bounds on the racy count ----
RaceParts == {"Part1", "PartA", "PartA2"}
\* min(2, K)
LeastRacy == IF ITERATIONS < 2 THEN ITERATIONS ELSE 2

\* C35: the unsynchronised counter workers (naive and stressed), any W >= 1
\* and K >= 1, every interleaving: once all workers are joined the counter
\* is at least min(2, K) and at most W * K, and with a single worker it is
\* exactly K; what main prints is that value.
C35_RacyResultBounds ==
    (part \in RaceParts /\ AllJoined) =>
        /\ LeastRacy <= counter
        /\ counter <= THREADS * ITERATIONS
        /\ THREADS = 1 => counter = ITERATIONS
        /\ got \in {-1, counter}
\* Two workers, two iterations each, and the run ends on the least value
\* the bound allows: 2 of 4.
C35_Witness ==
    /\ part \in RaceParts /\ main_pc = "end"
    /\ THREADS = 2 /\ ITERATIONS = 2
    /\ got = 2 /\ counter = LeastRacy
\* The same with the naive worker, and a run that loses nothing
C35_WitnessNaive == C35_Witness /\ part = "PartA"
C35_WitnessFull ==
    /\ part = "Part1" /\ main_pc = "end"
    /\ THREADS = 2 /\ ITERATIONS = 2 /\ got = 4

\* ---- The unlocked pair after the joins ----
\* C36 as stated: in the unlocked pair scenario, final values a # b after
\* all joins imply that a worker returned 1, so main never prints "NO"
\* next to two different values.
C36_AsStated ==
    (part = "BonusA" /\ AllJoined /\ pair_vals.a # pair_vals.b) =>
        /\ \E t \in 1..THREADS : Signalled(t)
        /\ broke = 1
        /\ report # "NO"
\* Two workers have run both iterations, nobody returned 1, main has
\* printed "NO" and the two fields differ.
C36_Witness ==
    /\ part = "BonusA" /\ main_pc = "end"
    /\ THREADS = 2 /\ ITERATIONS = 2
    /\ \A t \in 1..THREADS : ~Signalled(t) /\ i[t] = ITERATIONS
    /\ report = "NO"
    /\ pair_vals.a # pair_vals.b

\* ---- One scenario at a time ----
\* The positions of a thread inside semc_wait / semc_post
SemLabels == {"wait_lock", "wait_test", "cond_wait", "wait_dec", "wait_unlock",
              "post_lock", "post_inc", "post_signal", "post_unlock"}
\* The positions inside the start routine (or the call) of section p
WorkerLabels(p) ==
    CASE p \in {"Part1", "PartA2"} -> {"nl_load", "nl_window", "nl_store"}
      [] p = "PartA" -> {"na_load", "na_store"}
      [] p \in {"Part2", "PartB"} -> {"lk_lock", "lk_load", "lk_store", "lk_unlock"}
      [] p = "BonusA" -> {"pu_load_a", "pu_load_b", "pu_window", "pu_store_a",
                          "pu_store_b", "pu_check", "pu_cmp_a", "pu_cmp_b"}
      [] p = "BonusB" -> {"pl_lock", "pl_a_load", "pl_a_store", "pl_b_load",
                          "pl_b_store", "pl_unlock"}
      [] p \in {"Part3", "PartC1n"} -> {"nr_strlen", "nr_loop", "returned"}
      [] p \in ThreadedBad -> {"nr_strlen", "nr_loop", "fb_store"}
      [] p = "Part4" -> {"re_strlen", "re_loop"}
      [] p = "PartC1" -> {"ru_strlen", "ru_loop"}
      [] p = "Part6a" -> SemLabels \cup {"sb_load", "sb_store"}
      [] p = "Part6b" -> SemLabels \cup {"st_load", "st_spin", "st_store"}
      [] OTHER -> {}
\* t is running: created (or called) and not yet at its end
Live(t) == pc[t] \notin {"idle", "done", "joined"}
\* the sections in which main itself makes the calls, one after the other
CallSections == {"Part3", "PartC1n", "PartC1"}

\* C37: scenarios never overlap.  Every running worker is inside the start
\* routine of the section main is in, and runs only while main is in that
\* section's create / join loop (or in the call); main moves to the next
\* section only when no thread is left unjoined; a thread is started only
\* into the routine of the current section.
C37_StateOk ==
    \A t \in Threads :
        Live(t) => /\ pc[t] \in WorkerLabels(part)
                   /\ main_pc \in {"create", "join", "in_call"}
C37_StepOk ==
    /\ part' # part =>
          \A t \in Threads :
              \/ pc[t] \in {"idle", "joined"}
              \/ part \in CallSections /\ pc[t] = "done"
    /\ \A t \in Threads :
          (~Live(t) /\ Live(t)') =>
              /\ part' = part
              /\ pc'[t] \in WorkerLabels(part)
              /\ \A u \in Threads : Live(u) => pc[u] \in WorkerLabels(part)
C37_ScenariosNeverOverlap == [](C37_StateOk) /\ [][C37_StepOk]_vars
\* Part 6b has a worker in its body and one not yet created; the
\* semaphore of Part 6a has been destroyed.
C37_Witness ==
    /\ part = "Part6b" /\ main_pc = "create" /\ main_i = 1
    /\ pc[1] = "st_load" /\ pc[2] = "idle"
    /\ sem_initial["sem_bin"] = BinaryPermits /\ ~sem_live["sem_bin"]
\* w3: the locked pair workers run after the unlocked ones were joined
C37_WitnessPair ==
    /\ part = "BonusB" /\ main_pc = "join"
    /\ \E t \in Threads : pc[t] = "pl_b_load"
    /\ \E u \in Threads : pc[u] = "joined"
    /\ counter = Expected

\* C38: mutex-guarded pair: once every worker has been joined each of the
\* two fields equals THREADS * ITERATIONS, for every W, K and every
\* interleaving and whatever the unlocked scenario left in the pair; while
\* the workers run neither field exceeds that value.
C38_LockedPairCountsEveryUpdate ==
    part = "BonusB" =>
        /\ AllJoined => (pair_vals.a = THREADS * ITERATIONS /\ pair_vals.b = THREADS * ITERATIONS)
        /\ main_pc \in {"create", "join"} =>
              (pair_vals.b <= pair_vals.a /\ pair_vals.a <= THREADS * ITERATIONS)
\* Three workers, two iterations each, all joined: a = b = 6
C38_Witness ==
    /\ part = "BonusB" /\ main_pc = "print"
    /\ THREADS = MaxThreads /\ ITERATIONS = MaxIter
    /\ pair_vals = [a |-> MaxThreads * MaxIter, b |-> MaxThreads * MaxIter]
    /\ \A t \in 1..THREADS : pc[t] = "joined" /\ i[t] = ITERATIONS

\* ---- The last byte of buf ----
\* Inputs that reach the end of buf, or pass it
LongInputs == {Pattern(L) : L \in (BufSize - 2)..MaxLen}
\* Inputs of a few characters
TinyInputs == {Pattern(L) : L \in 0..MaxShortLen}
\* buf as a call with an input of BufSize - 1 characters left it
BufAfterLong == [k \in 0..(BufSize - 1) |->
                   IF k < BufSize - 1 THEN toupper(Pattern(BufSize - 1)[k + 1]) ELSE 0]

\* The non-reentrant formatter in two threads, one of them with an input that
\* fills buf; buf is fresh or as an earlier call left it
InitPart3bLong ==
    /\ InitFormat("Part3b", "create")
    /\ buf \in {Filled(0, 0), BufAfterWorld, BufAfterLong}
    /\ \E long \in Callers, s \in LongInputs, r \in TinyInputs :
          arg_in = [c \in Callers |-> IF c = long THEN s ELSE r]
    /\ arg_cap = [c \in Callers |-> 0]
    /\ arg_out = [c \in Callers |-> Filled(0, 0)]
SpecPart3bLong == InitPart3bLong /\ [][NextPart3b]_vars

\* C39: index 63 of the non-reentrant formatter's static buffer holds the
\* terminator in every reachable state, the middle of concurrent calls with
\* inputs of any lengths included, and no byte outside the 64 is written: a
\* reader of the shared buffer always finds a terminator within its bounds.
C39_LastByteIsTerminator ==
    /\ BufAt(BufSize - 1) = 0
    /\ ~oob
    /\ DOMAIN buf \subseteq 0..(BufSize - 1)
    /\ strlen(CStr(BufMem)) <= BufSize - 1
\* A call with an input longer than buf has written byte 62 and the
\* terminator at 63 while the other call is still in its loop
C39_Witness ==
    /\ part = "Part3b"
    /\ \E c \in Callers :
          /\ strlen(arg_in[c]) >= BufSize
          /\ pc[c] \in {"fb_store", "done"}
          /\ (BufSize - 1) \in DOMAIN last_writer
          /\ last_writer[BufSize - 1] = c
          /\ BufAt(BufSize - 2) # 0
          /\ \E d \in Callers \ {c} : pc[d] = "nr_loop" /\ i[d] > 0
\* Both calls are in their loops and the long one has just written byte 62
C39_WitnessMidCall ==
    /\ part = "Part3b"
    /\ \A c \in Callers : pc[c] = "nr_loop"
    /\ \E c \in Callers : strlen(arg_in[c]) >= BufSize /\ i[c] = BufSize - 1
    /\ BufAt(BufSize - 2) # 0
    /\ strlen(CStr(BufMem)) = BufSize - 1

====
